---- MODULE Spec2Model ----
(***************************************************************************)
(* Model of otomopy's HolodexManager (src/src/otomopy/holodex.py) and of   *)
(* its ChannelCache (src/src/otomopy/channel_cache.py): the stream         *)
(* polling loop, the tracked-channel update path, the Socket.IO            *)
(* connection loop, the chat subscription bookkeeping, the dispatch of     *)
(* chat events to the consumer callbacks, stop(), the wall-clock           *)
(* synchronisation of the polls and the channel cache; of the bulk fetch   *)
(* HolodexAPI.get_all_channels and the bootstrap of the cache from it; and *)
(* of the translation blacklist of GuildConfig (src/src/otomopy/config.py).*)
(*                                                                         *)
(* Coroutines are cut where they suspend on the network or on a timer:     *)
(* the HTTP fetch of a poll, the sleeps of the connection loop and of the  *)
(* resubscription, and the start of a task made with asyncio.create_task.  *)
(* The code between two such points is one action; in particular the diff  *)
(* of one poll, from the return of its fetch to the replacement of the     *)
(* snapshot, is one action.                                                *)
(*                                                                         *)
(* The specifications share the variables, Init and the actions.           *)
(*   Spec          the whole manager with start() called once.             *)
(*   SpecConnect   the connection loop alone, with start() called again    *)
(*                 and with long runs of failed attempts.                  *)
(*   SpecOverlap   _update_streams cut at the stream callback as well, so  *)
(*                 that the poll of the polling loop and the immediate     *)
(*                 poll of update_channels interleave inside their diffs.  *)
(*   SpecCallbacks the polling loop and the message loop with consumer     *)
(*                 callbacks that may raise.                               *)
(*   SpecPoll      the polling loop alone with every outcome of a cycle,   *)
(*                 under weak fairness of its steps.                       *)
(*   SpecStop      the two loops and stop().                               *)
(*   SpecSync      _calculate_sleep_until_next_sync over the seconds of    *)
(*                 a day.                                                  *)
(*   SpecCache     ChannelCache and the handle index get_channel keeps.    *)
(*   SpecLate      the polling loop cut at the stream callback beside a    *)
(*                 connection that is made once and stays up.              *)
(*   SpecFetch     get_all_channels against every server.                  *)
(*   SpecBootstrap _initialize_channel_cache with its bulk fetch.          *)
(*   SpecBlacklist the blacklist methods of GuildConfig for one guild.     *)
(***************************************************************************)
EXTENDS Integers, Sequences, FiniteSets, TLC

\* ------------------------------------------------------------------ bounds

\* Number of distinct video ids the live endpoint can report.
NumVideos == 2

Videos == 1..NumVideos

\* Two channels: video v belongs to channel ChannelOf(v).
Channels == {1, 2}

ChannelOf(v) == ((v - 1) % 2) + 1

\* ---------------------------------------------------------------- constants

\* "request_delay = 0.5" of get_all_channels, in 1/128 s.
initial_request_delay == 64

\* The cap 5.0 of "min(request_delay * 1.5, 5.0)", in 1/128 s.
max_request_delay == 640

\* "max_api_calls = 100".
max_api_calls == 100

\* "await asyncio.sleep(10)" after a 429, in seconds.
rate_limit_cooldown == 10

\* timedelta(hours=24) of _is_stream_more_than_24h_away.
DayHours == 24

\* "retry_delay = 1" and "max_retry_delay = 60" of _websocket_loop.
min_retry_delay == 1

max_retry_delay == 60

\* "self.update_interval = 60" and "self.sync_offset_seconds = 30" of
\* __init__, and the 86400 seconds of a day.
update_interval == 60

sync_offset_seconds == 30

DaySeconds == 86400

\* "self.cache_ttl: int = 24 * 60 * 60" of ChannelCache.__init__.
cache_ttl == 86400

\* How many channel ids there are and how long a channel list is at most.
NumChannelIds == 2

MaxChannels == 2

\* How many whole seconds one _update_streams call takes at most in SpecSync.
MaxPollSeconds == 2

\* How many channels one page of the channel list holds at most (the
\* parameter limit of get_all_channels).
PageLimit == 1

\* How many user names the blacklist commands are given.
NumUsers == 4

\* How many attempts in a row fail in Spec, and how many in SpecConnect.
MaxFailures == 1

MaxFailuresConnect == 8

\* How many times start() is invoked in SpecConnect.
MaxStarts == 2

\* Python's None where a dict is expected (current_streams, live_data): a
\* function whose domain is disjoint from every set of video ids.
NoneVal == [x \in {0} |-> "None"]

\* An empty JSON array / an empty dict.
EmptyData == [v \in {} |-> 0]

\* --------------------------------------------------------- the live endpoint

\* What the endpoint can say about one video: status, scheduled start in
\* hours from now (0: no start time in the item) and topic.
ItemKinds ==
    { [status |-> "live",     start_scheduled |-> 0,            topic_id |-> "singing"],
      [status |-> "live",     start_scheduled |-> 0,            topic_id |-> "membersonly"],
      [status |-> "upcoming", start_scheduled |-> DayHours,     topic_id |-> "singing"],
      [status |-> "upcoming", start_scheduled |-> DayHours + 1, topic_id |-> "singing"] }

ApiItem(v, k) ==
    [id |-> v, channel_id |-> ChannelOf(v), status |-> k.status,
     start_scheduled |-> k.start_scheduled, topic_id |-> k.topic_id]

\* The JSON arrays the endpoint can answer for a set of channels, as a map
\* from video id to item (an array holds a video at most once).
LiveData(channel_ids) ==
    UNION { { [v \in D |-> ApiItem(v, f[v])] : f \in [D -> ItemKinds] } :
            D \in SUBSET {v \in Videos : ChannelOf(v) \in channel_ids} }

\* The outcomes of the GET: 200 with an array, another status, or a
\* transport failure (status 0: the request raised).
Responses(channel_ids) ==
    { [status |-> 200, data |-> d] : d \in LiveData(channel_ids) }
    \cup { [status |-> s, data |-> EmptyData] : s \in {500, 0} }

\* A variant that hands the body on whatever the status and the body are.
get_live_streams_ignores_status(channel_ids, resp) ==
    IF channel_ids = {} THEN NoneVal ELSE resp.data

\* HolodexAPI.get_live_streams: None for an empty channel set, for a
\* non-200 status, for an exception, and for a 200 whose array is empty
\* ("return data if data else None").
get_live_streams(channel_ids, resp) ==
    IF channel_ids = {} THEN NoneVal
    ELSE IF resp.status = 200
         THEN (IF resp.data # EmptyData THEN resp.data ELSE NoneVal)
         ELSE NoneVal

\* StreamEvent.from_api_response.
from_api_response(item) ==
    [video_id |-> item.id, channel_id |-> item.channel_id,
     status |-> item.status, start_time |-> item.start_scheduled,
     members_only |-> (item.topic_id = "membersonly")]

\* HolodexManager._is_stream_more_than_24h_away (start_time in hours from
\* now; 0 is the falsy start_time).
is_stream_more_than_24h_away(event) ==
    IF event.start_time = 0 THEN FALSE
    ELSE event.start_time > DayHours

\* ------------------------------------------------------------------- state

VARIABLES
    running,               \* self.running
    tracked_channels,      \* self.tracked_channels
    current_streams,       \* self.current_streams: NoneVal or video_id -> StreamEvent
    active_subscriptions,  \* self.active_subscriptions
    ws,                    \* self.ws: "None", "open", or "closed" (the peer closed it)
    ws_connected,          \* self.ws_connected
    ws_pc,                 \* where _websocket_loop is
    resub_todo,            \* _resubscribe_to_streams: ids its current loop has left
    resub_dict,            \* the dict its second loop iterates: "same", "replaced", "mutated"
    poll_pc,               \* where _stream_update_loop is
    poll_arg,              \* tracked_channels argument of its _update_streams call
    uc_pc,                 \* where update_channels is
    uc_arg,                \* tracked_channels argument of its _update_streams call
    uc_removed,            \* its removed_channels, until it returns
    unsub_tasks,           \* _unsubscribe_from_chat tasks created and not yet run
    \* what the last step did, for stating the properties
    last_op,               \* the operation of the last step
    events,                \* stream_callback invocations of the last step: <<video_id, status>>
    frames,                \* frames the last step sent: <<"subscribe" | "unsubscribe", video_id>>
    prev_streams,          \* self.current_streams before the last step
    prev_subs,             \* self.active_subscriptions before the last step
    last_video,            \* the video id the inbound event of the last step named (0: none)
    resub_S,               \* active_subscriptions when the handshake completed
    resub_frames,          \* frames _resubscribe_to_streams sent on this connection
    resub_quiet,           \* nothing else touched the engine since the handshake
    retry_delay,           \* retry_delay of _websocket_loop, in seconds
    session_id,            \* self.session_id: "None" or "sid"
    ws_tasks,              \* the _websocket_loop tasks that are not done
    poll_loops,            \* the _stream_update_loop tasks start() has created
    failures,              \* failed attempts of _websocket_loop since it last started or connected
    diff,                  \* per _update_streams call suspended in the callback: its locals
    calls,                 \* callbacks made since self.current_streams was last assigned
    sync_now,              \* seconds since UTC midnight at the last sleep computation, -1 before
    sync_sleep,            \* what _calculate_sleep_until_next_sync returned then
    clock,                 \* time.time(), in seconds
    cache_file,            \* the cache file: missing, corrupt, or a saved snapshot
    cache_channels,        \* ChannelCache._channels
    channel_by_id,         \* ChannelCache._channel_by_id
    channel_by_name,       \* ChannelCache._channel_by_name
    channel_by_handle,     \* ChannelCache._channel_by_handle
    last_update,           \* ChannelCache.last_update, 0 when not set
    cache_op,              \* the last cache operation, its argument and result
    resolved,              \* the handles resolved through the API by this instance
    acked,                 \* the "40" was sent on the socket self.ws was last bound to
    chat_event,            \* the chat event being handled and the callbacks it was given to
    polled,                \* the snapshot built by the poll that is returning, else NoneVal
    fetch_pc,              \* get_all_channels: "idle", "loop" or "returned"
    api_call_count,        \* its local api_call_count
    request_delay,         \* its local request_delay, in 1/128 s
    offset,                \* its local offset
    all_channels,          \* its local all_channels
    fetch_result,          \* the list it returned
    server,                \* the channels the server has, and whether it ignores the offset
    attempts,              \* the last requests of the call: delay, offset, status, wait after
    boot_pc,               \* _initialize_channel_cache: "idle", "fetching" or "done"
    existing_channels,     \* its local existing_channels
    guild_config,          \* GuildConfig.data[guild]: whether it exists, has "tl_blacklist", and the list
    bl_op                  \* the last blacklist call: its user, result, and the list before

core == <<running, tracked_channels, current_streams, active_subscriptions,
          ws, ws_connected, ws_pc, resub_todo, resub_dict,
          poll_pc, poll_arg, uc_pc, uc_arg, uc_removed, unsub_tasks>>

\* The connection bookkeeping only start() and _websocket_loop touch.
conn == <<retry_delay, session_id, ws_tasks, poll_loops, failures>>

\* The state of the diffs that SpecOverlap cuts at the callback.
overlap == <<diff, calls>>

\* The channel cache and its file.
cache == <<clock, cache_file, cache_channels, channel_by_id, channel_by_name,
           channel_by_handle, last_update, cache_op, resolved>>

\* GuildConfig, for one guild.
config == <<guild_config, bl_op>>

\* HolodexAPI.get_all_channels.
bulk == <<fetch_pc, api_call_count, request_delay, offset, all_channels,
          fetch_result, server, attempts>>

\* HolodexManager._initialize_channel_cache.
boot == <<boot_pc, existing_channels>>

\* State outside the manager's loops: the sleep computation, the cache, the
\* bulk fetch and the bootstrap of the cache.
aside == <<sync_now, sync_sleep, cache, bulk, boot, config>>

\* The record of the consumer callbacks of the step being taken.
cb == <<chat_event, polled>>

vars == <<running, tracked_channels, current_streams, active_subscriptions,
          ws, ws_connected, ws_pc, resub_todo, resub_dict,
          poll_pc, poll_arg, uc_pc, uc_arg, uc_removed, unsub_tasks,
          last_op, events, frames, prev_streams, prev_subs, last_video,
          resub_S, resub_frames, resub_quiet,
          retry_delay, session_id, ws_tasks, poll_loops, failures,
          diff, calls,
          sync_now, sync_sleep,
          clock, cache_file, cache_channels, channel_by_id, channel_by_name,
          channel_by_handle, last_update, cache_op, resolved,
          acked, chat_event, polled,
          fetch_pc, api_call_count, request_delay, offset, all_channels,
          fetch_result, server, attempts, boot_pc, existing_channels, guild_config, bl_op>>

\* The channel records of a channel list, by id and name.
ChannelIds == 1..NumChannelIds

ChannelNames == {"a", "b"}

ChannelRecords == [id : ChannelIds, name : ChannelNames]

\* The channel lists update_cache is called with.
ChannelLists ==
    UNION {[1..n -> ChannelRecords] : n \in 0..MaxChannels}

\* The handles get_channel is asked for, and the channels the API returns
\* for a handle.
Handles == {"@a"}

HandleRecords == {r \in ChannelRecords : r.name = "a"}

\* The channel objects of the /channels endpoint.
ServerRecords == [id : ChannelIds, name : ChannelNames, inactive : BOOLEAN]

\* The channel lists the server can have.
ServerLists == UNION {[1..n -> ServerRecords] : n \in 0..MaxChannels}

\* No bulk fetch has been started.
NoServer == [channels |-> <<>>, endless |-> FALSE]

\* The user names of the blacklist commands.
Users == 1..NumUsers

\* The guild is not in GuildConfig.data.
NoGuild == [known |-> FALSE, has_blacklist |-> FALSE, tl_blacklist |-> <<>>]

\* The guild entry get_guild_config creates.
NewGuild == [known |-> TRUE, has_blacklist |-> TRUE, tl_blacklist |-> <<>>]

\* No blacklist method has been called.
NoBlacklistOp == [op |-> "none", user |-> 0, result |-> FALSE, before |-> NoGuild]

\* The instants at which the cache is looked at.
ClockValues == {1, 2, cache_ttl + 1}

\* The cache file does not exist.
NoFile == [state |-> "missing", channels |-> <<>>, last_update |-> 0, mtime |-> 0]

\* No cache operation has been made since the instance was created.
NoCacheOp == [op |-> "none", arg |-> <<>>, result |-> FALSE, before |-> <<>>]

\* No chat event is being handled.
NoChatEvent == [video |-> 0, lang |-> "", name |-> FALSE, text |-> FALSE,
                is_vtuber |-> FALSE, raises |-> FALSE, delivered |-> {}]

\* The language tags an inbound chat event name ends with.
LanguageTags == {"en", "ja"}

\* The two callers of _update_streams: _stream_update_loop and update_channels.
Pollers == {"loop", "update"}

\* No _update_streams call of that caller is suspended in the callback.
NoDiff == [new |-> NoneVal, todo |-> {}, at |-> 0]

\* HolodexManager.__init__.
Init ==
    /\ running = FALSE
    /\ tracked_channels = {}
    /\ current_streams = NoneVal
    /\ active_subscriptions = {}
    /\ ws = "None"
    /\ ws_connected = FALSE
    /\ ws_pc = "not_started"
    /\ resub_todo = {}
    /\ resub_dict = "same"
    /\ poll_pc = "not_started"
    /\ poll_arg = {}
    /\ uc_pc = "idle"
    /\ uc_arg = {}
    /\ uc_removed = {}
    /\ unsub_tasks = {}
    /\ last_op = "init"
    /\ events = <<>>
    /\ frames = <<>>
    /\ prev_streams = NoneVal
    /\ prev_subs = {}
    /\ last_video = 0
    /\ resub_S = {}
    /\ resub_frames = <<>>
    /\ retry_delay = min_retry_delay
    /\ session_id = "None"
    /\ ws_tasks = 0
    /\ poll_loops = 0
    /\ failures = 0
    /\ diff = [p \in Pollers |-> NoDiff]
    /\ calls = <<>>
    /\ sync_now = -1
    /\ sync_sleep = 0
    /\ clock = 1
    /\ cache_file = NoFile
    /\ cache_channels = <<>>
    /\ channel_by_id = <<>>
    /\ channel_by_name = <<>>
    /\ channel_by_handle = <<>>
    /\ last_update = 0
    /\ cache_op = NoCacheOp
    /\ resolved = <<>>
    /\ acked = FALSE
    /\ chat_event = NoChatEvent
    /\ polled = NoneVal
    /\ fetch_pc = "idle"
    /\ api_call_count = 0
    /\ request_delay = initial_request_delay
    /\ offset = 0
    /\ all_channels = <<>>
    /\ fetch_result = <<>>
    /\ server = NoServer
    /\ attempts = <<>>
    /\ boot_pc = "idle"
    /\ existing_channels = <<>>
    /\ guild_config = NoGuild
    /\ bl_op = NoBlacklistOp
    /\ resub_quiet = FALSE

\* -------------------------------------------------- chat subscription frames

\* The engine state a piece of straight-line code works on: the subscription
\* set, and the callbacks fired and frames sent so far in this step.
EngineState(subs) == [subs |-> subs, events |-> <<>>, frames |-> <<>>]

\* A variant that leaves the id in the set when send_str raises.
subscribe_to_chat_keeps_failed(st, v) ==
    IF ~ws_connected \/ ws = "None" THEN st
    ELSE IF ws = "open"
         THEN [st EXCEPT !.subs = @ \cup {v},
                         !.frames = Append(@, <<"subscribe", v>>)]
         ELSE [st EXCEPT !.subs = @ \cup {v}]

\* HolodexManager._subscribe_to_chat: nothing unless connected; the id is
\* added, the frame sent, and the id removed again when send_str raises (the
\* socket was closed by the peer and the loop has not yet noticed).
subscribe_to_chat(st, v) ==
    IF ~ws_connected \/ ws = "None" THEN st
    ELSE IF ws = "open"
         THEN [st EXCEPT !.subs = @ \cup {v},
                         !.frames = Append(@, <<"subscribe", v>>)]
         ELSE [st EXCEPT !.subs = @ \ {v}]

\* A variant that drops the id from the set before looking at the socket.
unsubscribe_from_chat_drops_first(st, v) ==
    IF ~ws_connected \/ ws = "None" THEN [st EXCEPT !.subs = @ \ {v}]
    ELSE [st EXCEPT !.subs = @ \ {v},
                    !.frames = IF ws = "open"
                               THEN Append(@, <<"unsubscribe", v>>) ELSE @]

\* HolodexManager._unsubscribe_from_chat: nothing unless connected; the frame
\* is sent (a raising send_str is logged) and the id removed.
unsubscribe_from_chat(st, v) ==
    IF ~ws_connected \/ ws = "None" THEN st
    ELSE [st EXCEPT !.subs = @ \ {v},
                    !.frames = IF ws = "open"
                               THEN Append(@, <<"unsubscribe", v>>) ELSE @]

\* ------------------------------------------------------- _update_streams

Min(S) == CHOOSE x \in S : \A y \in S : x <= y

\* A variant that compares the whole entry instead of its status.
is_stream_change_any_field(cs, v, event) ==
    \/ cs = NoneVal
    \/ v \notin DOMAIN cs
    \/ cs[v] # event

\* A variant that sees new video ids only and misses a changed status.
is_stream_change_new_only(cs, v, event) ==
    \/ cs = NoneVal
    \/ v \notin DOMAIN cs

\* "self.current_streams is None or video_id not in self.current_streams or
\*  self.current_streams[video_id].status != event.status"
is_stream_change(cs, v, event) ==
    \/ cs = NoneVal
    \/ v \notin DOMAIN cs
    \/ cs[v].status # event.status

\* A variant without the "self.current_streams is not None" conjunct.
calls_stream_callback_first_poll(cs, event) ==
    event.status # "upcoming" \/ ~is_stream_more_than_24h_away(event)

\* A variant that calls the callback for every transition.
calls_stream_callback_always(cs, event) == TRUE

\* A variant whose 24-hour test applies to the first poll only.
calls_stream_callback_later_polls(cs, event) ==
    \/ cs # NoneVal
    \/ (event.status # "upcoming" \/ ~is_stream_more_than_24h_away(event))

\* "self.current_streams is not None and (event.status != "upcoming" or not
\*  self._is_stream_more_than_24h_away(event))"
calls_stream_callback(cs, event) ==
    /\ cs # NoneVal
    /\ (event.status # "upcoming" \/ ~is_stream_more_than_24h_away(event))

\* "event.status in ["live", "upcoming"] and not event.members_only and
\*  video_id not in self.active_subscriptions"
wants_subscription(subs, v, event) ==
    /\ event.status \in {"live", "upcoming"}
    /\ ~event.members_only
    /\ v \notin subs

\* The body of the loop "for video_id, event in current_streams.items()".
detect_stream_change(st, new, v) ==
    LET event == new[v] IN
    IF ~is_stream_change(current_streams, v, event) THEN st
    ELSE
      LET s1 == IF calls_stream_callback(current_streams, event)
                THEN [st EXCEPT !.events = Append(@, <<v, event.status>>)]
                ELSE st
          s2 == IF wants_subscription(s1.subs, v, event) /\ ws_connected
                THEN subscribe_to_chat(s1, v)
                ELSE s1
      IN IF event.members_only /\ v \in s2.subs
         THEN unsubscribe_from_chat(s2, v)
         ELSE s2

RECURSIVE detect_loop(_, _, _)
detect_loop(st, new, todo) ==
    IF todo = {} THEN st
    ELSE LET v == Min(todo)
         IN detect_loop(detect_stream_change(st, new, v), new, todo \ {v})

\* The body of the loop "for video_id in list(self.current_streams.keys())".
check_ended_stream(st, new, v) ==
    IF v \notin DOMAIN new /\ v \in st.subs
    THEN unsubscribe_from_chat(st, v)
    ELSE st

RECURSIVE ended_loop(_, _, _)
ended_loop(st, new, todo) ==
    IF todo = {} THEN st
    ELSE LET v == Min(todo)
         IN ended_loop(check_ended_stream(st, new, v), new, todo \ {v})

\* The StreamEvent dict built from live_data.
convert_live_data(live_data) ==
    [v \in DOMAIN live_data |-> from_api_response(live_data[v])]

\* _update_streams from the return of the fetch to its end, on the
\* subscription set subs: the engine state it leaves.
diff_streams(subs, new) ==
    LET s1 == detect_loop(EngineState(subs), new, DOMAIN new)
    IN IF current_streams = NoneVal THEN s1
       ELSE ended_loop(s1, new, DOMAIN current_streams)

\* ------------------------------------------------ _cleanup_removed_channels

\* The streams of removed channels in the snapshot cs.
streams_to_remove(cs, removed) ==
    IF cs = NoneVal THEN {}
    ELSE {v \in DOMAIN cs : cs[v].channel_id \in removed}

\* The snapshot after the deletions.
cleanup_streams(cs, removed) ==
    IF cs = NoneVal THEN cs
    ELSE [v \in DOMAIN cs \ streams_to_remove(cs, removed) |-> cs[v]]

\* The unsubscribe tasks it creates.
cleanup_tasks(cs, subs, removed) ==
    {v \in streams_to_remove(cs, removed) : v \in subs /\ running}

\* ----------------------------------------------------------- bookkeeping

ResubPcs == {"resub_sleep", "resub1", "resub2"}

\* How a cycle whose get_live_streams returned None is recorded: the
\* endpoint answered 200 with an empty array, or the request failed.
failed_op(resp) == IF resp.status = 200 THEN "poll_empty" ELSE "poll_failed"

\* How a cycle whose get_live_streams returned a list is recorded.
fetched_op(resp) == IF resp.status = 200 THEN "poll" ELSE "poll_failed"

\* What the handling of an inbound event naming video v did.
RecordEvent(op, v, st, ps, psubs) ==
    /\ last_op' = op
    /\ last_video' = v
    /\ events' = st.events
    /\ frames' = st.frames
    /\ prev_streams' = ps
    /\ prev_subs' = psubs

\* What a step did: its operation, callbacks and frames, and (for a diff) the
\* snapshot and subscription set it started from.
Record(op, st, ps, psubs) == RecordEvent(op, 0, st, ps, psubs)

\* A step that made no callback, sent no frame and changed no snapshot.
NoRecord == Record("none", EngineState({}), NoneVal, {})

\* A step outside _resubscribe_to_streams ends the quiet of the
\* resubscription, and its record is dropped.
OutsideResub ==
    /\ resub_quiet' = FALSE
    /\ resub_S' = {}
    /\ resub_frames' = <<>>

\* No coroutine is between the end of its work and its return, and no
\* created task waits for its first step: the event loop is free to take
\* the next network or timer event.
LoopFree ==
    /\ poll_pc # "done"
    /\ uc_pc # "done"
    /\ ws_pc \notin {"resub_done", "handled"}
    /\ unsub_tasks = {}

\* self.current_streams is bound to a new dict while the second loop of
\* _resubscribe_to_streams is suspended on the old one.
DictReplaced ==
    resub_dict' = IF ws_pc = "resub2" /\ resub_dict = "same"
                  THEN "replaced" ELSE resub_dict

\* Keys are deleted from self.current_streams while that loop is suspended
\* on the same dict.
DictMutated(deleted) ==
    resub_dict' = IF ws_pc = "resub2" /\ resub_dict = "same" /\ deleted # {}
                  THEN "mutated" ELSE resub_dict

\* ----------------------------------------------------------------- start

\* HolodexManager.start: sets running and the tracked set, creates the
\* connection task and, after its sleep, the polling task.
Start(tc) ==
    /\ LoopFree
    /\ ~running
    /\ ws_pc = "not_started"
    /\ running' = TRUE
    /\ tracked_channels' = tc
    /\ ws_pc' = "connect"
    /\ poll_pc' = "idle"
    /\ UNCHANGED <<current_streams, active_subscriptions, ws, ws_connected,
                   resub_todo, resub_dict, poll_arg, uc_pc, uc_arg,
                   uc_removed, unsub_tasks>>
    /\ NoRecord
    /\ OutsideResub
    /\ retry_delay' = min_retry_delay
    /\ ws_tasks' = 1
    /\ poll_loops' = 1
    /\ failures' = 0
    /\ UNCHANGED session_id
    /\ UNCHANGED overlap
    /\ UNCHANGED aside
    /\ UNCHANGED acked
    /\ UNCHANGED cb

\* ------------------------------------------------------------ polling loop

\* _stream_update_loop calls _update_streams(self.tracked_channels): it
\* returns at once without tracked channels, else the fetch is in flight.
PollStart ==
    /\ LoopFree
    /\ running
    /\ poll_pc = "idle"
    /\ IF tracked_channels = {}
       THEN UNCHANGED <<poll_pc, poll_arg>>
       ELSE poll_pc' = "fetch" /\ poll_arg' = tracked_channels
    /\ UNCHANGED <<running, tracked_channels, current_streams,
                   active_subscriptions, ws, ws_connected, ws_pc, resub_todo,
                   resub_dict, uc_pc, uc_arg, uc_removed, unsub_tasks>>
    /\ NoRecord
    /\ OutsideResub
    /\ UNCHANGED conn
    /\ UNCHANGED overlap
    /\ UNCHANGED aside
    /\ UNCHANGED acked
    /\ UNCHANGED cb

\* The fetch of the polling loop returns and _update_streams runs to its end.
PollFetchDone(resp) ==
    /\ LoopFree
    /\ poll_pc = "fetch"
    /\ poll_pc' = "done"
    /\ poll_arg' = {}
    /\ LET live_data == get_live_streams(poll_arg, resp) IN
       IF live_data = NoneVal
       THEN /\ UNCHANGED <<current_streams, active_subscriptions, resub_dict>>
            /\ Record(failed_op(resp), EngineState({}),
                      current_streams, active_subscriptions)
       ELSE LET new == convert_live_data(live_data)
                st == diff_streams(active_subscriptions, new)
            IN /\ current_streams' = new
               /\ active_subscriptions' = st.subs
               /\ DictReplaced
               /\ Record(fetched_op(resp), st, current_streams, active_subscriptions)
    /\ UNCHANGED <<running, tracked_channels, ws, ws_connected, ws_pc,
                   resub_todo, uc_pc, uc_arg, uc_removed, unsub_tasks>>
    /\ OutsideResub
    /\ UNCHANGED conn
    /\ UNCHANGED overlap
    /\ UNCHANGED aside
    /\ UNCHANGED acked
    /\ UNCHANGED cb

\* _update_streams has returned: the loop computes its sleep and sleeps.
PollSleep ==
    /\ poll_pc = "done"
    /\ poll_pc' = "idle"
    /\ UNCHANGED <<running, tracked_channels, current_streams,
                   active_subscriptions, ws, ws_connected, ws_pc, resub_todo,
                   resub_dict, poll_arg, uc_pc, uc_arg, uc_removed,
                   unsub_tasks>>
    /\ NoRecord
    /\ OutsideResub
    /\ UNCHANGED conn
    /\ UNCHANGED overlap
    /\ UNCHANGED aside
    /\ UNCHANGED acked
    /\ polled' = NoneVal
    /\ UNCHANGED chat_event

\* --------------------------------------------------------- update_channels

\* A variant whose immediate poll asks for the added channels only.
UpdateChannels_polls_added_only(nc) ==
    /\ LoopFree
    /\ uc_pc = "idle"
    /\ nc # tracked_channels
    /\ tracked_channels' = nc
    /\ LET added == nc \ tracked_channels
           removed == tracked_channels \ nc
       IN IF added # {} /\ running
          THEN /\ uc_pc' = "fetch"
               /\ uc_arg' = added
               /\ uc_removed' = removed
               /\ UNCHANGED <<current_streams, unsub_tasks, resub_dict>>
               /\ NoRecord
          ELSE /\ uc_pc' = "done"
               /\ current_streams' = cleanup_streams(current_streams, removed)
               /\ unsub_tasks' =
                      cleanup_tasks(current_streams, active_subscriptions, removed)
               /\ DictMutated(streams_to_remove(current_streams, removed))
               /\ uc_removed' = removed
               /\ UNCHANGED uc_arg
               /\ Record("update_channels", EngineState({}),
                         current_streams, active_subscriptions)
    /\ UNCHANGED <<running, active_subscriptions, ws, ws_connected, ws_pc,
                   resub_todo, poll_pc, poll_arg>>
    /\ OutsideResub
    /\ UNCHANGED conn
    /\ UNCHANGED overlap
    /\ UNCHANGED aside
    /\ UNCHANGED acked
    /\ UNCHANGED cb

\* update_channels(new_channels) up to its first suspension: with added
\* channels and the engine running that is the fetch of the immediate
\* _update_streams; otherwise it runs to its end, cleaning up the removed
\* channels.
UpdateChannels(nc) ==
    /\ LoopFree
    /\ uc_pc = "idle"
    /\ nc # tracked_channels
    /\ tracked_channels' = nc
    /\ LET added == nc \ tracked_channels
           removed == tracked_channels \ nc
       IN IF added # {} /\ running
          THEN /\ uc_pc' = "fetch"
               /\ uc_arg' = nc
               /\ uc_removed' = removed
               /\ UNCHANGED <<current_streams, unsub_tasks, resub_dict>>
               /\ NoRecord
          ELSE /\ uc_pc' = "done"
               /\ current_streams' = cleanup_streams(current_streams, removed)
               /\ unsub_tasks' =
                      cleanup_tasks(current_streams, active_subscriptions, removed)
               /\ DictMutated(streams_to_remove(current_streams, removed))
               /\ uc_removed' = removed
               /\ UNCHANGED uc_arg
               /\ Record("update_channels", EngineState({}),
                         current_streams, active_subscriptions)
    /\ UNCHANGED <<running, active_subscriptions, ws, ws_connected, ws_pc,
                   resub_todo, poll_pc, poll_arg>>
    /\ OutsideResub
    /\ UNCHANGED conn
    /\ UNCHANGED overlap
    /\ UNCHANGED aside
    /\ UNCHANGED acked
    /\ UNCHANGED cb

\* The fetch of update_channels' _update_streams returns; _update_streams
\* and then the rest of update_channels run to their end.
UpdateChannelsFetchDone(resp) ==
    /\ LoopFree
    /\ uc_pc = "fetch"
    /\ uc_pc' = "done"
    /\ uc_arg' = {}
    /\ UNCHANGED uc_removed
    /\ LET live_data == get_live_streams(uc_arg, resp)
           failed == live_data = NoneVal
           new == IF failed THEN current_streams ELSE convert_live_data(live_data)
           st == IF failed THEN EngineState(active_subscriptions)
                 ELSE diff_streams(active_subscriptions, new)
       IN /\ current_streams' = cleanup_streams(new, uc_removed)
          /\ active_subscriptions' = st.subs
          /\ unsub_tasks' = cleanup_tasks(new, st.subs, uc_removed)
          /\ IF failed
             THEN /\ DictMutated(streams_to_remove(new, uc_removed))
                  /\ Record(failed_op(resp), st, current_streams, active_subscriptions)
             ELSE /\ DictReplaced
                  /\ Record(fetched_op(resp), st, current_streams, active_subscriptions)
    /\ UNCHANGED <<running, tracked_channels, ws, ws_connected, ws_pc,
                   resub_todo, poll_pc, poll_arg>>
    /\ OutsideResub
    /\ UNCHANGED conn
    /\ UNCHANGED overlap
    /\ UNCHANGED aside
    /\ UNCHANGED acked
    /\ UNCHANGED cb

\* update_channels returns to its caller.
UpdateChannelsReturn ==
    /\ uc_pc = "done"
    /\ uc_pc' = "idle"
    /\ uc_removed' = {}
    /\ UNCHANGED <<running, tracked_channels, current_streams,
                   active_subscriptions, ws, ws_connected, ws_pc, resub_todo,
                   resub_dict, poll_pc, poll_arg, uc_arg, unsub_tasks>>
    /\ NoRecord
    /\ OutsideResub
    /\ UNCHANGED conn
    /\ UNCHANGED overlap
    /\ UNCHANGED aside
    /\ UNCHANGED acked
    /\ UNCHANGED cb

\* The first task created by _cleanup_removed_channels that has not run yet
\* runs _unsubscribe_from_chat.
UnsubscribeTask ==
    /\ poll_pc # "done"
    /\ uc_pc # "done"
    /\ ws_pc \notin {"resub_done", "handled"}
    /\ unsub_tasks # {}
    /\ LET v == Min(unsub_tasks)
           st == unsubscribe_from_chat(EngineState(active_subscriptions), v)
       IN /\ unsub_tasks' = unsub_tasks \ {v}
          /\ active_subscriptions' = st.subs
          /\ Record("unsubscribe_task", st, NoneVal, active_subscriptions)
    /\ UNCHANGED <<running, tracked_channels, current_streams, ws,
                   ws_connected, ws_pc, resub_todo, resub_dict, poll_pc,
                   poll_arg, uc_pc, uc_arg, uc_removed>>
    /\ OutsideResub
    /\ UNCHANGED conn
    /\ UNCHANGED overlap
    /\ UNCHANGED aside
    /\ UNCHANGED acked
    /\ UNCHANGED cb

\* -------------------------------------------------------- connection loop

\* A variant that is connected as soon as the socket is open.
WsConnectOk_connected_at_once ==
    /\ LoopFree
    /\ running
    /\ ws_pc = "connect"
    /\ ws' = "open"
    /\ ws_connected' = TRUE
    /\ ws_pc' = "handshake"
    /\ UNCHANGED <<running, tracked_channels, current_streams,
                   active_subscriptions, resub_todo, resub_dict,
                   poll_pc, poll_arg, uc_pc, uc_arg, uc_removed, unsub_tasks>>
    /\ NoRecord
    /\ OutsideResub
    /\ UNCHANGED conn
    /\ UNCHANGED overlap
    /\ UNCHANGED aside
    /\ acked' = FALSE
    /\ UNCHANGED cb

\* _connect_to_websocket succeeds: self.ws is the new socket and the
\* handshake frame is awaited.
WsConnectOk ==
    /\ LoopFree
    /\ running
    /\ ws_pc = "connect"
    /\ ws' = "open"
    /\ ws_pc' = "handshake"
    /\ UNCHANGED <<running, tracked_channels, current_streams,
                   active_subscriptions, ws_connected, resub_todo, resub_dict,
                   poll_pc, poll_arg, uc_pc, uc_arg, uc_removed, unsub_tasks>>
    /\ NoRecord
    /\ OutsideResub
    /\ UNCHANGED conn
    /\ UNCHANGED overlap
    /\ UNCHANGED aside
    /\ acked' = FALSE
    /\ UNCHANGED cb

\* A variant that doubles without the cap.
next_retry_delay_uncapped(d) == 2 * d

\* "retry_delay = min(retry_delay * 2, max_retry_delay)" of the except
\* clauses of _websocket_loop.
next_retry_delay(d) == IF 2 * d <= max_retry_delay THEN 2 * d ELSE max_retry_delay

\* The connection attempt raises (timeout, ClientError, refused): the
\* except clauses, the sleeps, and the loop is back at its next attempt.
\* At most limit attempts fail in a row.
WsConnectFail(limit) ==
    /\ LoopFree
    /\ running
    /\ ws_pc = "connect"
    /\ failures < limit
    /\ ws_connected' = FALSE
    /\ ws' = "None"
    /\ ws_pc' = "connect"
    /\ retry_delay' = next_retry_delay(retry_delay)
    /\ failures' = failures + 1
    /\ UNCHANGED <<running, tracked_channels, current_streams,
                   active_subscriptions, resub_todo, resub_dict,
                   poll_pc, poll_arg, uc_pc, uc_arg, uc_removed, unsub_tasks,
                   session_id, ws_tasks, poll_loops>>
    /\ NoRecord
    /\ OutsideResub
    /\ UNCHANGED overlap
    /\ UNCHANGED aside
    /\ UNCHANGED acked
    /\ UNCHANGED cb

\* _handle_socketio_handshake raises (no frame within its 10 seconds, a
\* "0" frame that is not JSON, the "40" cannot be sent): the same except
\* clauses as a failed connection attempt.
WsHandshakeRaises(limit) ==
    /\ LoopFree
    /\ ws_pc = "handshake"
    /\ failures < limit
    /\ ws_connected' = FALSE
    /\ ws' = "None"
    /\ ws_pc' = "connect"
    /\ retry_delay' = next_retry_delay(retry_delay)
    /\ failures' = failures + 1
    /\ UNCHANGED <<running, tracked_channels, current_streams,
                   active_subscriptions, resub_todo, resub_dict,
                   poll_pc, poll_arg, uc_pc, uc_arg, uc_removed, unsub_tasks,
                   session_id, ws_tasks, poll_loops>>
    /\ Record("handshake_failed", EngineState({}), NoneVal, {})
    /\ OutsideResub
    /\ UNCHANGED overlap
    /\ UNCHANGED aside
    /\ UNCHANGED acked
    /\ UNCHANGED cb

\* _handle_socketio_handshake returns False (the first frame is not a TEXT
\* frame starting with "0"): "break" leaves the while loop, the socket's
\* context manager closes it, the finally clause clears ws_connected and
\* the task is done.  self.ws keeps referring to the closed socket.
WsHandshakeInvalid ==
    /\ LoopFree
    /\ ws_pc = "handshake"
    /\ ws_connected' = FALSE
    /\ ws' = "closed"
    /\ ws_pc' = "exited"
    /\ ws_tasks' = ws_tasks - 1
    /\ retry_delay' = min_retry_delay
    /\ failures' = 0
    /\ UNCHANGED <<running, tracked_channels, current_streams,
                   active_subscriptions, resub_todo, resub_dict,
                   poll_pc, poll_arg, uc_pc, uc_arg, uc_removed, unsub_tasks,
                   session_id, poll_loops>>
    /\ NoRecord
    /\ OutsideResub
    /\ UNCHANGED overlap
    /\ UNCHANGED aside
    /\ UNCHANGED acked
    /\ UNCHANGED cb

\* _handle_socketio_handshake returns True: ws_connected is set and
\* _resubscribe_to_streams starts with its one-second sleep.
WsHandshakeOk ==
    /\ LoopFree
    /\ ws_pc = "handshake"
    /\ ws = "open"
    /\ ws_connected' = TRUE
    /\ ws_pc' = "resub_sleep"
    /\ resub_todo' = {}
    /\ resub_dict' = "same"
    /\ UNCHANGED <<running, tracked_channels, current_streams,
                   active_subscriptions, ws, poll_pc, poll_arg, uc_pc, uc_arg,
                   uc_removed, unsub_tasks>>
    /\ NoRecord
    /\ resub_S' = active_subscriptions
    /\ resub_frames' = <<>>
    /\ resub_quiet' = TRUE
    /\ session_id' = "sid"
    /\ retry_delay' = min_retry_delay
    /\ failures' = 0
    /\ UNCHANGED <<ws_tasks, poll_loops>>
    /\ UNCHANGED overlap
    /\ UNCHANGED aside
    /\ acked' = TRUE
    /\ UNCHANGED cb

\* A variant that forgets the members-only test.
is_missed_candidate_any_topic(event) ==
    event.status \in {"live", "upcoming"}

\* "event.status in ["live", "upcoming"] and not event.members_only" of
\* _resubscribe_to_streams.
is_missed_candidate(event) ==
    event.status \in {"live", "upcoming"} /\ ~event.members_only

\* The record of the resubscription after a step of it that sent fr.
ResubRecord(fr) ==
    /\ resub_frames' = IF resub_quiet THEN resub_frames \o fr ELSE <<>>
    /\ UNCHANGED <<resub_S, resub_quiet>>

\* One step of _resubscribe_to_streams, from the end of one sleep to the
\* next: first the ids of list(self.active_subscriptions), one per step (in
\* ascending order here), then the streams of self.current_streams that are
\* eligible and not subscribed, one per step.  The second loop raises
\* RuntimeError when keys were deleted from the dict it iterates; the
\* connection loop's "except Exception" then drops the connection.
ResubscribeStep ==
    /\ LoopFree
    /\ ws_pc \in ResubPcs
    /\ LET todo1 == IF ws_pc = "resub_sleep" THEN active_subscriptions
                    ELSE IF ws_pc = "resub1" THEN resub_todo ELSE {}
           todo2 == IF ws_pc = "resub2" THEN resub_todo
                    ELSE IF current_streams = NoneVal THEN {}
                    ELSE {v \in DOMAIN current_streams :
                              is_missed_candidate(current_streams[v])}
           missed == {v \in todo2 : v \notin active_subscriptions}
       IN IF todo1 # {}
          THEN LET v == Min(todo1)
                   st == subscribe_to_chat(EngineState(active_subscriptions), v)
               IN /\ active_subscriptions' = st.subs
                  /\ resub_todo' = todo1 \ {v}
                  /\ ws_pc' = "resub1"
                  /\ ResubRecord(st.frames)
                  /\ Record("resubscribe", st, NoneVal, {})
                  /\ UNCHANGED <<ws, ws_connected, resub_dict>>
          ELSE IF ws_pc = "resub2" /\ resub_dict = "mutated"
          THEN /\ ws_connected' = FALSE
               /\ ws' = "None"
               /\ ws_pc' = "connect"
               /\ resub_todo' = {}
               /\ resub_dict' = "same"
               /\ NoRecord
               /\ OutsideResub
               /\ UNCHANGED active_subscriptions
          ELSE IF missed # {}
          THEN LET v == Min(missed)
                   st == subscribe_to_chat(EngineState(active_subscriptions), v)
               IN /\ active_subscriptions' = st.subs
                  /\ resub_todo' = {u \in todo2 : u > v}
                  /\ ws_pc' = "resub2"
                  /\ resub_dict' = IF ws_pc = "resub2" THEN resub_dict ELSE "same"
                  /\ ResubRecord(st.frames)
                  /\ Record("resubscribe", st, NoneVal, {})
                  /\ UNCHANGED <<ws, ws_connected>>
          ELSE /\ ws_pc' = "resub_done"
               /\ resub_todo' = {}
               /\ resub_dict' = "same"
               /\ ResubRecord(<<>>)
               /\ NoRecord
               /\ UNCHANGED <<active_subscriptions, ws, ws_connected>>
    /\ UNCHANGED <<running, tracked_channels, current_streams, poll_pc,
                   poll_arg, uc_pc, uc_arg, uc_removed, unsub_tasks>>
    /\ retry_delay' = IF ws_pc = "resub2" /\ resub_dict = "mutated"
                      THEN next_retry_delay(retry_delay)
                      ELSE retry_delay
    /\ failures' = IF ws_pc = "resub2" /\ resub_dict = "mutated"
                   THEN failures + 1
                   ELSE failures
    /\ UNCHANGED <<session_id, ws_tasks, poll_loops>>
    /\ UNCHANGED overlap
    /\ UNCHANGED aside
    /\ UNCHANGED acked
    /\ UNCHANGED cb

\* _resubscribe_to_streams has returned: _process_messages_loop starts.
WsProcess ==
    /\ ws_pc = "resub_done"
    /\ ws_pc' = "process"
    /\ UNCHANGED <<running, tracked_channels, current_streams,
                   active_subscriptions, ws, ws_connected, resub_todo,
                   resub_dict, poll_pc, poll_arg, uc_pc, uc_arg, uc_removed,
                   unsub_tasks>>
    /\ NoRecord
    /\ OutsideResub
    /\ UNCHANGED conn
    /\ UNCHANGED overlap
    /\ UNCHANGED aside
    /\ UNCHANGED acked
    /\ UNCHANGED cb

\* The peer closes the socket, or the transport fails, after the handshake.
WsRemoteClose ==
    /\ LoopFree
    /\ ws = "open"
    /\ ws_pc \in ResubPcs \cup {"process"}
    /\ ws' = "closed"
    /\ UNCHANGED <<running, tracked_channels, current_streams,
                   active_subscriptions, ws_connected, ws_pc, resub_todo,
                   resub_dict, poll_pc, poll_arg, uc_pc, uc_arg, uc_removed,
                   unsub_tasks>>
    /\ NoRecord
    /\ OutsideResub
    /\ UNCHANGED conn
    /\ UNCHANGED overlap
    /\ UNCHANGED aside
    /\ UNCHANGED acked
    /\ UNCHANGED cb

\* _process_messages_loop ends on the closed socket: "the connection was
\* closed" branch, the sleep, and the loop is back at its next attempt.
WsClosed ==
    /\ LoopFree
    /\ ws_pc = "process"
    /\ ws = "closed"
    /\ ws_connected' = FALSE
    /\ ws' = "None"
    /\ ws_pc' = "connect"
    /\ UNCHANGED <<running, tracked_channels, current_streams,
                   active_subscriptions, resub_todo, resub_dict,
                   poll_pc, poll_arg, uc_pc, uc_arg, uc_removed, unsub_tasks>>
    /\ NoRecord
    /\ OutsideResub
    /\ UNCHANGED conn
    /\ UNCHANGED overlap
    /\ UNCHANGED aside
    /\ UNCHANGED acked
    /\ UNCHANGED cb

\* ------------------------------------------------------- inbound events

\* _handle_subscribe_error for a "subscribeError" event naming video v.
SubscribeError(v) ==
    /\ LoopFree
    /\ ws_pc = "process"
    /\ ws = "open"
    /\ ws_pc' = "handled"
    /\ active_subscriptions' = active_subscriptions \ {v}
    /\ UNCHANGED <<running, tracked_channels, current_streams, ws,
                   ws_connected, resub_todo, resub_dict, poll_pc,
                   poll_arg, uc_pc, uc_arg, uc_removed, unsub_tasks>>
    /\ RecordEvent("subscribe_error", v, EngineState({}),
                   current_streams, active_subscriptions)
    /\ OutsideResub
    /\ UNCHANGED conn
    /\ UNCHANGED overlap
    /\ UNCHANGED aside
    /\ UNCHANGED acked
    /\ UNCHANGED cb

\* A variant that also sends the unsubscribe frame.
ChatEnd_sends_unsubscribe(v) ==
    /\ LoopFree
    /\ ws_pc = "process"
    /\ ws = "open"
    /\ ws_pc' = "handled"
    /\ LET st == unsubscribe_from_chat(EngineState(active_subscriptions), v)
       IN /\ active_subscriptions' = st.subs
          /\ RecordEvent("chat_end", v, st, current_streams, active_subscriptions)
    /\ UNCHANGED <<running, tracked_channels, current_streams, ws,
                   ws_connected, resub_todo, resub_dict, poll_pc,
                   poll_arg, uc_pc, uc_arg, uc_removed, unsub_tasks>>
    /\ OutsideResub
    /\ UNCHANGED conn
    /\ UNCHANGED overlap
    /\ UNCHANGED aside
    /\ UNCHANGED acked
    /\ UNCHANGED cb

\* _handle_chat_event for a "{v}/en" event without a name and of type "end".
ChatEnd(v) ==
    /\ LoopFree
    /\ ws_pc = "process"
    /\ ws = "open"
    /\ ws_pc' = "handled"
    /\ active_subscriptions' =
           IF current_streams = NoneVal THEN active_subscriptions
           ELSE active_subscriptions \ {v}
    /\ UNCHANGED <<running, tracked_channels, current_streams, ws,
                   ws_connected, resub_todo, resub_dict, poll_pc,
                   poll_arg, uc_pc, uc_arg, uc_removed, unsub_tasks>>
    /\ RecordEvent("chat_end", v, EngineState({}),
                   current_streams, active_subscriptions)
    /\ OutsideResub
    /\ UNCHANGED conn
    /\ UNCHANGED overlap
    /\ UNCHANGED aside
    /\ UNCHANGED acked
    /\ UNCHANGED cb

\* A variant that treats the decode failure as a failure of the connection.
UndecodableEvent_disconnects ==
    /\ LoopFree
    /\ ws_pc = "process"
    /\ ws = "open"
    /\ ws_connected' = FALSE
    /\ ws' = "None"
    /\ ws_pc' = "connect"
    /\ UNCHANGED <<running, tracked_channels, current_streams,
                   active_subscriptions, resub_todo, resub_dict, poll_pc,
                   poll_arg, uc_pc, uc_arg, uc_removed, unsub_tasks>>
    /\ Record("decode_failure", EngineState({}),
              current_streams, active_subscriptions)
    /\ OutsideResub
    /\ UNCHANGED conn
    /\ UNCHANGED overlap
    /\ UNCHANGED aside
    /\ UNCHANGED acked
    /\ UNCHANGED cb

\* _parse_and_handle_socketio_event for a frame that starts with "42" and
\* whose payload is not valid JSON: json.loads raises JSONDecodeError, which
\* the method catches and logs.
UndecodableEvent ==
    /\ LoopFree
    /\ ws_pc = "process"
    /\ ws = "open"
    /\ ws_pc' = "handled"
    /\ UNCHANGED <<running, tracked_channels, current_streams,
                   active_subscriptions, ws, ws_connected, resub_todo,
                   resub_dict, poll_pc, poll_arg, uc_pc, uc_arg, uc_removed,
                   unsub_tasks>>
    /\ Record("decode_failure", EngineState({}),
              current_streams, active_subscriptions)
    /\ OutsideResub
    /\ UNCHANGED conn
    /\ UNCHANGED overlap
    /\ UNCHANGED aside
    /\ UNCHANGED acked
    /\ UNCHANGED cb

\* _process_websocket_message has returned: _process_messages_loop awaits
\* the next message.
WsReceive ==
    /\ ws_pc = "handled"
    /\ ws_pc' = "process"
    /\ UNCHANGED <<running, tracked_channels, current_streams,
                   active_subscriptions, ws, ws_connected, resub_todo,
                   resub_dict, poll_pc, poll_arg, uc_pc, uc_arg, uc_removed,
                   unsub_tasks>>
    /\ NoRecord
    /\ OutsideResub
    /\ UNCHANGED conn
    /\ UNCHANGED overlap
    /\ UNCHANGED aside
    /\ UNCHANGED acked
    /\ chat_event' = NoChatEvent
    /\ UNCHANGED polled

\* ------------------------------------------------------------------ spec

\* A variant of start() that creates a _websocket_loop task on every call.
StartAgain_always_creates(tc) ==
    /\ LoopFree
    /\ running
    /\ poll_loops < MaxStarts
    /\ tracked_channels' = tc
    /\ poll_loops' = poll_loops + 1
    /\ ws_tasks' = ws_tasks + 1
    /\ UNCHANGED <<running, current_streams, active_subscriptions, ws,
                   ws_connected, ws_pc, resub_todo, resub_dict, poll_pc,
                   poll_arg, uc_pc, uc_arg, uc_removed, unsub_tasks,
                   retry_delay, failures, session_id>>
    /\ NoRecord
    /\ OutsideResub
    /\ UNCHANGED overlap
    /\ UNCHANGED aside
    /\ UNCHANGED acked
    /\ UNCHANGED cb

\* start() is invoked while the manager is running: the tracked set is
\* replaced, a _websocket_loop task is created only "if not self.ws_task
\* or self.ws_task.done()", and one more _stream_update_loop task is
\* created, which is counted here and not run.
StartAgain(tc) ==
    /\ LoopFree
    /\ running
    /\ poll_loops < MaxStarts
    /\ tracked_channels' = tc
    /\ poll_loops' = poll_loops + 1
    /\ IF ws_tasks = 0
       THEN /\ ws_tasks' = 1
            /\ ws_pc' = "connect"
            /\ retry_delay' = min_retry_delay
            /\ failures' = 0
       ELSE UNCHANGED <<ws_tasks, ws_pc, retry_delay, failures>>
    /\ UNCHANGED <<running, current_streams, active_subscriptions, ws,
                   ws_connected, resub_todo, resub_dict, poll_pc,
                   poll_arg, uc_pc, uc_arg, uc_removed, unsub_tasks,
                   session_id>>
    /\ NoRecord
    /\ OutsideResub
    /\ UNCHANGED overlap
    /\ UNCHANGED aside
    /\ UNCHANGED acked
    /\ UNCHANGED cb

Next ==
    \/ \E tc \in SUBSET Channels : Start(tc)
    \/ PollStart
    \/ \E resp \in Responses(poll_arg) : PollFetchDone(resp)
    \/ PollSleep
    \/ \E nc \in SUBSET Channels : UpdateChannels(nc)
    \/ \E resp \in Responses(uc_arg) : UpdateChannelsFetchDone(resp)
    \/ UpdateChannelsReturn
    \/ UnsubscribeTask
    \/ WsConnectOk
    \/ WsConnectFail(MaxFailures)
    \/ WsHandshakeRaises(MaxFailures)
    \/ WsHandshakeInvalid
    \/ WsHandshakeOk
    \/ ResubscribeStep
    \/ WsProcess
    \/ WsRemoteClose
    \/ WsClosed
    \/ \E v \in Videos : SubscribeError(v)
    \/ \E v \in Videos : ChatEnd(v)
    \/ UndecodableEvent
    \/ WsReceive

Spec == Init /\ [][Next]_vars

\* ------------------------------------------- _update_streams, cut at the callback

\* What the loop body does for video v after "await self.stream_callback(event)"
\* has returned: the subscribe and the members-only unsubscribe.
after_stream_callback(st, new, v) ==
    LET event == new[v]
        s2 == IF wants_subscription(st.subs, v, event) /\ ws_connected
              THEN subscribe_to_chat(st, v)
              ELSE st
    IN IF event.members_only /\ v \in s2.subs
       THEN unsubscribe_from_chat(s2, v)
       ELSE s2

\* The loop "for video_id, event in current_streams.items()" over the ids
\* todo, up to the first callback it awaits: the engine state, the ids left,
\* and the id whose callback is awaited (0 when the loop has ended).
RECURSIVE run_detect_loop(_, _, _)
run_detect_loop(st, new, todo) ==
    IF todo = {} THEN [st |-> st, todo |-> {}, at |-> 0]
    ELSE LET v == Min(todo)
             event == new[v]
         IN IF ~is_stream_change(current_streams, v, event)
            THEN run_detect_loop(st, new, todo \ {v})
            ELSE IF calls_stream_callback(current_streams, event)
            THEN [st |-> [st EXCEPT !.events = Append(@, <<v, event.status>>)],
                  todo |-> todo \ {v},
                  at |-> v]
            ELSE run_detect_loop(after_stream_callback(st, new, v), new, todo \ {v})

\* The part of _update_streams that caller p runs between two suspensions,
\* r being what its detection loop did: suspended in a callback, or through
\* the ended-streams loop to "self.current_streams = current_streams" (and,
\* in update_channels, on to _cleanup_removed_channels).
DiffSegment(p, new, r) ==
    IF r.at # 0
    THEN /\ diff' = [diff EXCEPT ![p] = [new |-> new, todo |-> r.todo, at |-> r.at]]
         /\ active_subscriptions' = r.st.subs
         /\ calls' = calls \o r.st.events
         /\ UNCHANGED <<current_streams, resub_dict, unsub_tasks>>
    ELSE LET st2 == IF current_streams = NoneVal THEN r.st
                    ELSE ended_loop(r.st, new, DOMAIN current_streams)
             removed == IF p = "update" THEN uc_removed ELSE {}
         IN /\ diff' = [diff EXCEPT ![p] = NoDiff]
            /\ active_subscriptions' = st2.subs
            /\ calls' = <<>>
            /\ current_streams' = cleanup_streams(new, removed)
            /\ unsub_tasks' = cleanup_tasks(new, st2.subs, removed)
            /\ DictReplaced

\* The fetch of the polling loop returns: _update_streams runs on, to the
\* first callback it awaits or to its end.
PollFetchReturns(resp) ==
    /\ poll_pc = "fetch"
    /\ unsub_tasks = {}
    /\ poll_arg' = {}
    /\ LET live_data == get_live_streams(poll_arg, resp) IN
       IF live_data = NoneVal
       THEN /\ poll_pc' = "idle"
            /\ UNCHANGED <<current_streams, active_subscriptions, resub_dict,
                           unsub_tasks, diff, calls>>
       ELSE LET new == convert_live_data(live_data)
                r == run_detect_loop(EngineState(active_subscriptions), new, DOMAIN new)
            IN /\ poll_pc' = IF r.at # 0 THEN "callback" ELSE "idle"
               /\ DiffSegment("loop", new, r)
    /\ UNCHANGED <<running, tracked_channels, ws, ws_connected, ws_pc,
                   resub_todo, uc_pc, uc_arg, uc_removed>>
    /\ NoRecord
    /\ OutsideResub
    /\ UNCHANGED conn
    /\ UNCHANGED aside
    /\ UNCHANGED acked
    /\ UNCHANGED cb

\* The callback the polling loop's _update_streams awaits returns.
PollCallbackReturns ==
    /\ poll_pc = "callback"
    /\ unsub_tasks = {}
    /\ LET d == diff["loop"]
           st == after_stream_callback(EngineState(active_subscriptions), d.new, d.at)
           r == run_detect_loop(st, d.new, d.todo)
       IN /\ poll_pc' = IF r.at # 0 THEN "callback" ELSE "idle"
          /\ DiffSegment("loop", d.new, r)
    /\ UNCHANGED <<running, tracked_channels, ws, ws_connected, ws_pc,
                   resub_todo, poll_arg, uc_pc, uc_arg, uc_removed>>
    /\ NoRecord
    /\ OutsideResub
    /\ UNCHANGED conn
    /\ UNCHANGED aside
    /\ UNCHANGED acked
    /\ UNCHANGED cb

\* The fetch of update_channels' _update_streams returns: it runs on, to the
\* first callback it awaits or through the rest of update_channels.
UpdateFetchReturns(resp) ==
    /\ uc_pc = "fetch"
    /\ unsub_tasks = {}
    /\ uc_arg' = {}
    /\ LET live_data == get_live_streams(uc_arg, resp) IN
       IF live_data = NoneVal
       THEN /\ uc_pc' = "idle"
            /\ uc_removed' = {}
            /\ current_streams' = cleanup_streams(current_streams, uc_removed)
            /\ unsub_tasks' =
                   cleanup_tasks(current_streams, active_subscriptions, uc_removed)
            /\ DictMutated(streams_to_remove(current_streams, uc_removed))
            /\ UNCHANGED <<active_subscriptions, diff, calls>>
       ELSE LET new == convert_live_data(live_data)
                r == run_detect_loop(EngineState(active_subscriptions), new, DOMAIN new)
            IN /\ uc_pc' = IF r.at # 0 THEN "callback" ELSE "idle"
               /\ uc_removed' = IF r.at # 0 THEN uc_removed ELSE {}
               /\ DiffSegment("update", new, r)
    /\ UNCHANGED <<running, tracked_channels, ws, ws_connected, ws_pc,
                   resub_todo, poll_pc, poll_arg>>
    /\ NoRecord
    /\ OutsideResub
    /\ UNCHANGED conn
    /\ UNCHANGED aside
    /\ UNCHANGED acked
    /\ UNCHANGED cb

\* The callback update_channels' _update_streams awaits returns.
UpdateCallbackReturns ==
    /\ uc_pc = "callback"
    /\ unsub_tasks = {}
    /\ LET d == diff["update"]
           st == after_stream_callback(EngineState(active_subscriptions), d.new, d.at)
           r == run_detect_loop(st, d.new, d.todo)
       IN /\ uc_pc' = IF r.at # 0 THEN "callback" ELSE "idle"
          /\ uc_removed' = IF r.at # 0 THEN uc_removed ELSE {}
          /\ DiffSegment("update", d.new, r)
    /\ UNCHANGED <<running, tracked_channels, ws, ws_connected, ws_pc,
                   resub_todo, poll_pc, poll_arg, uc_arg>>
    /\ NoRecord
    /\ OutsideResub
    /\ UNCHANGED conn
    /\ UNCHANGED aside
    /\ UNCHANGED acked
    /\ UNCHANGED cb

\* The two callers of _update_streams with the callback as a suspension
\* point, so that one call can run while the other awaits its callback.  The
\* socket is never connected here: no chat frame is sent.
NextOverlap ==
    \/ \E tc \in SUBSET Channels : Start(tc)
    \/ PollStart
    \/ \E resp \in Responses(poll_arg) : PollFetchReturns(resp)
    \/ PollCallbackReturns
    \/ \E nc \in SUBSET Channels : UpdateChannels(nc)
    \/ \E resp \in Responses(uc_arg) : UpdateFetchReturns(resp)
    \/ UpdateCallbackReturns
    \/ UpdateChannelsReturn

SpecOverlap == Init /\ [][NextOverlap]_vars

\* The polling loop, with the stream callback as a suspension point, beside
\* a connection that is made once and stays up: the handshake and the
\* resubscription can run while a poll awaits its callback.
NextLate ==
    \/ \E tc \in SUBSET Channels : Start(tc)
    \/ PollStart
    \/ \E resp \in Responses(poll_arg) : PollFetchReturns(resp)
    \/ PollCallbackReturns
    \/ WsConnectOk
    \/ WsHandshakeOk
    \/ ResubscribeStep
    \/ WsProcess

SpecLate == Init /\ [][NextLate]_vars

\* ------------------------------------------------------ consumer callbacks

\* A variant that gives every chat message to the chat callback.
chat_callbacks_chat_only(lang, name, text, is_vtuber) ==
    IF lang # "en" \/ current_streams = NoneVal \/ ~name \/ ~text THEN {}
    ELSE {"chat"}

\* The callbacks an inbound event "<video_id>/<lang>" is given to: the
\* name must end with "/en" (_parse_and_handle_socketio_event), a snapshot
\* must be retained, the payload must have a name and a message that is not
\* blank (_handle_chat_event); then is_vtuber chooses the callback.
chat_callbacks(lang, name, text, is_vtuber) ==
    IF lang # "en" THEN {}
    ELSE IF current_streams = NoneVal THEN {}
    ELSE IF ~name THEN {}
    ELSE IF ~text THEN {}
    ELSE IF is_vtuber THEN {"vtuber"}
    ELSE {"chat"}

\* An inbound chat event for video v is handled; the callback it is given
\* to raises or not, and an exception is logged by
\* _parse_and_handle_socketio_event.
ChatMessageEvent(v, lang, name, text, is_vtuber, raises) ==
    /\ LoopFree
    /\ ws_pc = "process"
    /\ ws = "open"
    /\ ws_pc' = "handled"
    /\ chat_event' = [video |-> v, lang |-> lang, name |-> name, text |-> text,
                      is_vtuber |-> is_vtuber, raises |-> raises,
                      delivered |-> chat_callbacks(lang, name, text, is_vtuber)]
    /\ UNCHANGED <<running, tracked_channels, current_streams,
                   active_subscriptions, ws, ws_connected, resub_todo,
                   resub_dict, poll_pc, poll_arg, uc_pc, uc_arg, uc_removed,
                   unsub_tasks>>
    /\ RecordEvent("chat_message", v, EngineState({}),
                   current_streams, active_subscriptions)
    /\ OutsideResub
    /\ UNCHANGED <<conn, overlap, aside, acked, polled>>

\* A variant in which the exception of the stream callback leaves
\* _update_streams.
callback_exception_escapes_update == TRUE

\* "except Exception as e: logger.error(...)" around the stream callback:
\* the exception does not leave _update_streams.
callback_exception_escapes == FALSE

\* The loop "for video_id, event in current_streams.items()" when every
\* stream callback raises: the engine state, and whether the loop ended.
RECURSIVE detect_loop_raising(_, _, _)
detect_loop_raising(st, new, todo) ==
    IF todo = {} THEN [st |-> st, completed |-> TRUE]
    ELSE LET v == Min(todo)
             event == new[v]
         IN IF ~is_stream_change(current_streams, v, event)
            THEN detect_loop_raising(st, new, todo \ {v})
            ELSE IF calls_stream_callback(current_streams, event)
            THEN LET s1 == [st EXCEPT !.events = Append(@, <<v, event.status>>)]
                 IN IF callback_exception_escapes
                    THEN [st |-> s1, completed |-> FALSE]
                    ELSE detect_loop_raising(after_stream_callback(s1, new, v),
                                             new, todo \ {v})
            ELSE detect_loop_raising(after_stream_callback(st, new, v),
                                     new, todo \ {v})

\* The fetch of the polling loop returns a list, and every stream callback
\* _update_streams calls raises (at least one is called).  An exception
\* that left _update_streams would be logged by _stream_update_loop.
PollFetchDoneRaising(resp) ==
    /\ LoopFree
    /\ poll_pc = "fetch"
    /\ get_live_streams(poll_arg, resp) # NoneVal
    /\ LET new == convert_live_data(get_live_streams(poll_arg, resp))
           r == detect_loop_raising(EngineState(active_subscriptions), new, DOMAIN new)
           st == IF r.completed /\ current_streams # NoneVal
                 THEN ended_loop(r.st, new, DOMAIN current_streams)
                 ELSE r.st
       IN /\ r.st.events # <<>>
          /\ polled' = new
          /\ active_subscriptions' = st.subs
          /\ IF r.completed
             THEN current_streams' = new /\ DictReplaced
             ELSE UNCHANGED <<current_streams, resub_dict>>
          /\ Record("poll_raising", st, current_streams, active_subscriptions)
    /\ poll_pc' = "done"
    /\ poll_arg' = {}
    /\ UNCHANGED <<running, tracked_channels, ws, ws_connected, ws_pc,
                   resub_todo, uc_pc, uc_arg, uc_removed, unsub_tasks>>
    /\ OutsideResub
    /\ UNCHANGED <<conn, overlap, aside, acked, chat_event>>

\* The polling loop, the connection and the inbound chat events, with
\* consumer callbacks that may raise.
NextCallbacks ==
    \/ \E tc \in SUBSET Channels : Start(tc)
    \/ PollStart
    \/ \E resp \in Responses(poll_arg) : PollFetchDone(resp)
    \/ \E resp \in Responses(poll_arg) : PollFetchDoneRaising(resp)
    \/ PollSleep
    \/ WsConnectOk
    \/ WsHandshakeOk
    \/ ResubscribeStep
    \/ WsProcess
    \/ WsReceive
    \/ \E v \in Videos : \E lang \in LanguageTags : \E name, text, is_vtuber, raises \in BOOLEAN :
           ChatMessageEvent(v, lang, name, text, is_vtuber, raises)

SpecCallbacks == Init /\ [][NextCallbacks]_vars

\* ------------------------------------------------------ _stream_update_loop

\* A variant without the "except Exception" of the loop: the exception ends
\* the polling task.
PollFetchRaises_ends_task ==
    /\ LoopFree
    /\ poll_pc = "fetch"
    /\ poll_pc' = "stopped"
    /\ poll_arg' = {}
    /\ UNCHANGED <<running, tracked_channels, current_streams,
                   active_subscriptions, ws, ws_connected, ws_pc, resub_todo,
                   resub_dict, uc_pc, uc_arg, uc_removed, unsub_tasks>>
    /\ Record("poll_error", EngineState({}), current_streams, active_subscriptions)
    /\ OutsideResub
    /\ UNCHANGED <<conn, overlap, aside, acked, cb>>

\* The fetch returns a list with an item StreamEvent.from_api_response
\* cannot decode (a missing "title", "status" or "channel"): the KeyError
\* leaves _update_streams before the diff, and "except Exception" of
\* _stream_update_loop logs it and sleeps 5 seconds.
PollFetchRaises ==
    /\ LoopFree
    /\ poll_pc = "fetch"
    /\ poll_pc' = "error_sleep"
    /\ poll_arg' = {}
    /\ UNCHANGED <<running, tracked_channels, current_streams,
                   active_subscriptions, ws, ws_connected, ws_pc, resub_todo,
                   resub_dict, uc_pc, uc_arg, uc_removed, unsub_tasks>>
    /\ Record("poll_error", EngineState({}), current_streams, active_subscriptions)
    /\ OutsideResub
    /\ UNCHANGED <<conn, overlap, aside, acked, cb>>

\* "await asyncio.sleep(5)" of the except branch returns: the loop tests
\* self.running again.
PollErrorSleep ==
    /\ poll_pc = "error_sleep"
    /\ poll_pc' = "idle"
    /\ UNCHANGED <<running, tracked_channels, current_streams,
                   active_subscriptions, ws, ws_connected, ws_pc, resub_todo,
                   resub_dict, poll_arg, uc_pc, uc_arg, uc_removed, unsub_tasks>>
    /\ NoRecord
    /\ OutsideResub
    /\ UNCHANGED <<conn, overlap, aside, acked, cb>>

\* A poll cycle ends, by its return or by its exception.
PollCycleEnds ==
    \/ \E resp \in Responses(poll_arg) : PollFetchDone(resp)
    \/ \E resp \in Responses(poll_arg) : PollFetchDoneRaising(resp)
    \/ PollFetchRaises

\* The polling loop alone, with every outcome of a cycle.
NextPoll ==
    \/ \E tc \in SUBSET Channels : Start(tc)
    \/ PollStart
    \/ \E resp \in Responses(poll_arg) : PollFetchDone(resp)
    \/ \E resp \in Responses(poll_arg) : PollFetchDoneRaising(resp)
    \/ PollFetchRaises
    \/ PollSleep
    \/ PollErrorSleep

\* The HTTP request ends (the session has a timeout), the sleeps end, and
\* the event loop resumes the polling task.
SpecPoll ==
    /\ Init
    /\ [][NextPoll]_vars
    /\ WF_vars(PollStart)
    /\ WF_vars(PollCycleEnds)
    /\ WF_vars(PollSleep)
    /\ WF_vars(PollErrorSleep)

\* --------------------------------------------------------------------- stop

\* stop(): self.running = False; the websocket task is cancelled and
\* awaited, which leaves "async with ... as ws" (the socket is closed) and
\* runs the finally of _websocket_loop (ws_connected = False, the session
\* is closed); then the socket, the session and the API client are closed.
\* The polling task is not cancelled.
Stop ==
    /\ LoopFree
    /\ running
    /\ running' = FALSE
    /\ ws_connected' = FALSE
    /\ ws' = IF ws = "open" THEN "closed" ELSE ws
    /\ ws_pc' = "exited"
    /\ ws_tasks' = IF ws_pc = "exited" THEN ws_tasks ELSE ws_tasks - 1
    /\ resub_todo' = {}
    /\ resub_dict' = "same"
    /\ UNCHANGED <<tracked_channels, current_streams, active_subscriptions,
                   poll_pc, poll_arg, uc_pc, uc_arg, uc_removed, unsub_tasks,
                   retry_delay, session_id, poll_loops, failures>>
    /\ Record("stop", EngineState({}), NoneVal, {})
    /\ OutsideResub
    /\ UNCHANGED <<overlap, aside, acked, cb>>

\* The sleep of _stream_update_loop ends after stop(): "while self.running"
\* is false and the polling task returns.
PollExit ==
    /\ ~running
    /\ poll_pc = "idle"
    /\ poll_pc' = "exited"
    /\ UNCHANGED <<running, tracked_channels, current_streams,
                   active_subscriptions, ws, ws_connected, ws_pc, resub_todo,
                   resub_dict, poll_arg, uc_pc, uc_arg, uc_removed, unsub_tasks>>
    /\ NoRecord
    /\ OutsideResub
    /\ UNCHANGED <<conn, overlap, aside, acked, cb>>

\* One start, the two loops, and stop().
NextStop ==
    \/ \E tc \in SUBSET Channels : Start(tc)
    \/ PollStart
    \/ \E resp \in Responses(poll_arg) : PollFetchDone(resp)
    \/ PollSleep
    \/ PollExit
    \/ WsConnectOk
    \/ WsHandshakeOk
    \/ ResubscribeStep
    \/ WsProcess
    \/ Stop

SpecStop == Init /\ [][NextStop]_vars

\* --------------------------------------------------------------- GuildConfig

\* The elements of a list.
Elements(list) == {list[k] : k \in 1..Len(list)}

\* list.remove(x): the list without the first occurrence of x.
RECURSIVE list_remove(_, _)
list_remove(list, x) ==
    IF list = <<>> THEN <<>>
    ELSE IF Head(list) = x THEN Tail(list)
    ELSE <<Head(list)>> \o list_remove(Tail(list), x)

\* get_guild_config: the entry of the guild, created when it is missing.
get_guild_config == IF guild_config.known THEN guild_config ELSE NewGuild

\* What a blacklist step leaves alone.
BlacklistFrame ==
    /\ UNCHANGED <<core, conn, overlap, sync_now, sync_sleep, cache, bulk, boot>>
    /\ UNCHANGED <<last_op, events, frames, prev_streams, prev_subs, last_video,
                   resub_S, resub_frames, resub_quiet, acked, cb>>

\* The configuration file was written before the blacklist existed: the
\* entry of the guild is loaded without the key "tl_blacklist".
LoadGuildWithoutBlacklist ==
    /\ guild_config = NoGuild
    /\ bl_op = NoBlacklistOp
    /\ guild_config' = [known |-> TRUE, has_blacklist |-> FALSE, tl_blacklist |-> <<>>]
    /\ UNCHANGED bl_op
    /\ BlacklistFrame

\* GuildConfig.add_blacklisted_user.
AddBlacklistedUser(user_name) ==
    /\ LET g == get_guild_config
           list == g.tl_blacklist
       IN IF user_name \in Elements(list)
          THEN /\ guild_config' = g
               /\ bl_op' = [op |-> "add", user |-> user_name, result |-> FALSE,
                            before |-> g]
          ELSE /\ guild_config' = [known |-> TRUE, has_blacklist |-> TRUE,
                                   tl_blacklist |-> Append(list, user_name)]
               /\ bl_op' = [op |-> "add", user |-> user_name, result |-> TRUE,
                            before |-> g]
    /\ BlacklistFrame

\* The value of remove_blacklisted_user: the "return True" of its finally
\* clause replaces the "return False" of "except ValueError"; only the
\* return before the try is kept.
remove_result(g, user_name) ==
    IF ~g.has_blacklist THEN FALSE ELSE TRUE

\* GuildConfig.remove_blacklisted_user.
RemoveBlacklistedUser(user_name) ==
    /\ LET g == get_guild_config IN
       /\ guild_config' = [g EXCEPT !.tl_blacklist = list_remove(@, user_name)]
       /\ bl_op' = [op |-> "remove", user |-> user_name,
                    result |-> remove_result(g, user_name), before |-> g]
    /\ BlacklistFrame

\* The blacklist of one guild.
NextBlacklist ==
    \/ LoadGuildWithoutBlacklist
    \/ \E user_name \in Users : AddBlacklistedUser(user_name)
    \/ \E user_name \in Users : RemoveBlacklistedUser(user_name)

SpecBlacklist == Init /\ [][NextBlacklist]_vars

\* ------------------------------------------------- HolodexAPI.get_all_channels

\* The page the server answers a request at offset o with: the channels
\* from o on, at most PageLimit of them; a server that ignores the offset
\* answers with its first page whatever o is.
server_page(o) ==
    LET c == server.channels
        from == IF server.endless THEN 0 ELSE o
        to == IF from + PageLimit < Len(c) THEN from + PageLimit ELSE Len(c)
    IN SubSeq(c, from + 1, to)

\* A variant of the delay after a 429 that adds a quarter only.
next_request_delay_slow(d) ==
    IF (d * 5) \div 4 < max_request_delay THEN (d * 5) \div 4 ELSE max_request_delay

\* "request_delay = min(request_delay * 1.5, 5.0)".
next_request_delay(d) ==
    IF (d * 3) \div 2 < max_request_delay THEN (d * 3) \div 2 ELSE max_request_delay

\* The last three requests of the call, after the one answered with status.
attempted(status) ==
    LET a == Append(attempts,
                    [delay |-> request_delay, offset |-> offset, status |-> status,
                     wait |-> IF status = 429 THEN rate_limit_cooldown ELSE 0])
    IN IF Len(a) > 3 THEN Tail(a) ELSE a

\* The locals of get_all_channels at its start, for a server that has the
\* list channels.
StartFetch(channels, endless) ==
    /\ fetch_pc' = "loop"
    /\ api_call_count' = 0
    /\ request_delay' = initial_request_delay
    /\ offset' = 0
    /\ all_channels' = <<>>
    /\ fetch_result' = <<>>
    /\ server' = [channels |-> channels, endless |-> endless]
    /\ attempts' = <<>>

\* get_all_channels is called.
FetchStart(channels, endless) ==
    /\ fetch_pc = "idle"
    /\ boot_pc = "idle"
    /\ endless => Len(channels) = 1
    /\ StartFetch(channels, endless)
    /\ UNCHANGED <<core, conn, overlap, config, sync_now, sync_sleep, cache, boot>>
    /\ UNCHANGED <<last_op, events, frames, prev_streams, prev_subs, last_video,
                   resub_S, resub_frames, resub_quiet, acked, cb>>

\* What a step of get_all_channels leaves alone.
FetchFrame ==
    /\ UNCHANGED <<core, conn, overlap, config, sync_now, sync_sleep, cache, boot, server>>
    /\ UNCHANGED <<last_op, events, frames, prev_streams, prev_subs, last_video,
                   resub_S, resub_frames, resub_quiet, acked, cb>>

\* get_all_channels returns the list result.
FetchReturns(result) ==
    /\ fetch_pc' = "returned"
    /\ fetch_result' = result

\* A request is answered with 200: an empty page ends the loop, another
\* page is added and the offset moves on by its length.
FetchPage ==
    /\ fetch_pc = "loop"
    /\ api_call_count < max_api_calls
    /\ api_call_count' = api_call_count + 1
    /\ attempts' = attempted(200)
    /\ LET channels == server_page(offset) IN
       IF channels = <<>>
       THEN /\ FetchReturns(all_channels)
            /\ UNCHANGED <<all_channels, offset>>
       ELSE /\ all_channels' = all_channels \o channels
            /\ offset' = offset + Len(channels)
            /\ UNCHANGED <<fetch_pc, fetch_result>>
    /\ UNCHANGED request_delay
    /\ FetchFrame

\* A variant of the 429 branch that does not count the request.
FetchRateLimited_uncounted ==
    /\ fetch_pc = "loop"
    /\ api_call_count < max_api_calls
    /\ attempts' = attempted(429)
    /\ request_delay' = next_request_delay(request_delay)
    /\ UNCHANGED <<api_call_count, fetch_pc, fetch_result, all_channels, offset>>
    /\ FetchFrame

\* A request is answered with 429: the delay grows, the task sleeps 10
\* seconds and the loop goes on with the same offset.
FetchRateLimited ==
    /\ fetch_pc = "loop"
    /\ api_call_count < max_api_calls
    /\ api_call_count' = api_call_count + 1
    /\ attempts' = attempted(429)
    /\ request_delay' = next_request_delay(request_delay)
    /\ UNCHANGED <<fetch_pc, fetch_result, all_channels, offset>>
    /\ FetchFrame

\* A request is answered with another status: "break", and the list
\* accumulated so far is returned.
FetchStatusError ==
    /\ fetch_pc = "loop"
    /\ api_call_count < max_api_calls
    /\ api_call_count' = api_call_count + 1
    /\ attempts' = attempted(500)
    /\ FetchReturns(all_channels)
    /\ UNCHANGED <<request_delay, all_channels, offset>>
    /\ FetchFrame

\* A request raises (a transport failure, a body that is not JSON):
\* "except Exception: ... return []".
FetchRaises ==
    /\ fetch_pc = "loop"
    /\ api_call_count < max_api_calls
    /\ api_call_count' = api_call_count + 1
    /\ attempts' = attempted(0)
    /\ FetchReturns(<<>>)
    /\ UNCHANGED <<request_delay, all_channels, offset>>
    /\ FetchFrame

\* "while api_call_count < max_api_calls" is false: the list is returned.
FetchLimitReached ==
    /\ fetch_pc = "loop"
    /\ api_call_count >= max_api_calls
    /\ FetchReturns(all_channels)
    /\ UNCHANGED <<api_call_count, request_delay, all_channels, offset, attempts>>
    /\ FetchFrame

\* get_all_channels alone, against every server.
NextFetch ==
    \/ \E channels \in ServerLists : \E endless \in BOOLEAN : FetchStart(channels, endless)
    \/ FetchPage
    \/ FetchRateLimited
    \/ FetchStatusError
    \/ FetchRaises
    \/ FetchLimitReached

SpecFetch == Init /\ [][NextFetch]_vars

\* ------------------------------------------------------------ ChannelCache

\* "{channel[key]: channel for channel in value}": a later record replaces
\* an earlier one with the same key.
index_by_id(value) ==
    [i \in {value[k].id : k \in 1..Len(value)} |->
        value[CHOOSE k \in 1..Len(value) :
                /\ value[k].id = i
                /\ \A j \in 1..Len(value) : value[j].id = i => j <= k]]

index_by_name(value) ==
    [n \in {value[k].name : k \in 1..Len(value)} |->
        value[CHOOSE k \in 1..Len(value) :
                /\ value[k].name = n
                /\ \A j \in 1..Len(value) : value[j].name = n => j <= k]]

\* A variant of the id index that keeps the entries it had.
new_channel_by_id_keeps_old(value) ==
    [i \in DOMAIN channel_by_id \cup DOMAIN index_by_id(value) |->
        IF i \in DOMAIN index_by_id(value) THEN index_by_id(value)[i]
        ELSE channel_by_id[i]]

\* The id index the channels setter builds.
new_channel_by_id(value) == index_by_id(value)

\* The channels setter: the list, the name and id indices built from it,
\* and an empty handle index.
SetChannels(value) ==
    /\ cache_channels' = value
    /\ channel_by_name' = index_by_name(value)
    /\ channel_by_id' = new_channel_by_id(value)
    /\ channel_by_handle' = <<>>

\* A variant that looks at the file only.
is_cache_valid_file_only == cache_file.state # "missing"

\* ChannelCache.is_cache_valid: the file exists and the last update (the
\* file's modification time when last_update is not set) is less than
\* cache_ttl ago.
is_cache_valid ==
    /\ cache_file.state # "missing"
    /\ clock - (IF last_update = 0 THEN cache_file.mtime ELSE last_update) < cache_ttl

\* A call of is_cache_valid, which also sets an unset last_update.
IsCacheValid ==
    /\ cache_op' = [op |-> "is_cache_valid", arg |-> <<>>,
                    result |-> is_cache_valid, before |-> <<>>]
    /\ last_update' = IF cache_file.state # "missing" /\ last_update = 0
                      THEN cache_file.mtime ELSE last_update
    /\ UNCHANGED <<clock, cache_file, cache_channels, channel_by_id,
                   channel_by_name, channel_by_handle, resolved>>

\* A variant of update_cache that builds the indices only after a
\* successful save.
UpdateCache_commits_after_save(channels, outcome) ==
    IF channels = <<>>
    THEN /\ outcome = "saved"
         /\ cache_op' = [op |-> "update_cache", arg |-> channels,
                         result |-> FALSE, before |-> channel_by_id]
         /\ UNCHANGED <<clock, cache_file, cache_channels, channel_by_id,
                        channel_by_name, channel_by_handle, last_update, resolved>>
    ELSE /\ IF outcome = "saved"
            THEN SetChannels(channels)
            ELSE UNCHANGED <<cache_channels, channel_by_id, channel_by_name,
                             channel_by_handle>>
         /\ cache_file' =
                IF outcome = "saved"
                THEN [state |-> "ok", channels |-> channels,
                      last_update |-> clock, mtime |-> clock]
                ELSE IF outcome = "truncated"
                THEN [state |-> "corrupt", channels |-> <<>>,
                      last_update |-> 0, mtime |-> clock]
                ELSE cache_file
         /\ last_update' = IF outcome = "saved" THEN clock ELSE last_update
         /\ cache_op' = [op |-> "update_cache", arg |-> channels,
                         result |-> (outcome = "saved"), before |-> <<>>]
         /\ UNCHANGED <<clock, resolved>>

\* ChannelCache.update_cache(channels): refused for an empty list; else the
\* channels setter and save_cache, whose write succeeds ("saved"), cannot
\* open the file ("unopened") or fails after truncating it ("truncated").
UpdateCache(channels, outcome) ==
    IF channels = <<>>
    THEN /\ outcome = "saved"
         /\ cache_op' = [op |-> "update_cache", arg |-> channels,
                         result |-> FALSE, before |-> channel_by_id]
         /\ UNCHANGED <<clock, cache_file, cache_channels, channel_by_id,
                        channel_by_name, channel_by_handle, last_update, resolved>>
    ELSE /\ SetChannels(channels)
         /\ cache_file' =
                IF outcome = "saved"
                THEN [state |-> "ok", channels |-> channels,
                      last_update |-> clock, mtime |-> clock]
                ELSE IF outcome = "truncated"
                THEN [state |-> "corrupt", channels |-> <<>>,
                      last_update |-> 0, mtime |-> clock]
                ELSE cache_file
         /\ last_update' = IF outcome = "saved" THEN clock ELSE last_update
         /\ cache_op' = [op |-> "update_cache", arg |-> channels,
                         result |-> (outcome = "saved"), before |-> <<>>]
         /\ UNCHANGED <<clock, resolved>>

\* ChannelCache.load_cache: a saved snapshot is loaded through the channels
\* setter; a missing or unreadable file is reported.
LoadCache ==
    /\ IF cache_file.state = "ok"
       THEN /\ SetChannels(cache_file.channels)
            /\ last_update' = cache_file.last_update
       ELSE UNCHANGED <<cache_channels, channel_by_id, channel_by_name,
                        channel_by_handle, last_update>>
    /\ cache_op' = [op |-> "load_cache", arg |-> <<>>,
                    result |-> (cache_file.state = "ok"), before |-> <<>>]
    /\ UNCHANGED <<clock, cache_file, resolved>>

\* HolodexManager.get_channel for a handle that is not in the handle index
\* and for which the API returns the channel rec.
ResolveHandle(h, rec) ==
    /\ h \notin DOMAIN channel_by_handle
    /\ channel_by_handle' = [x \in DOMAIN channel_by_handle \cup {h} |->
                                IF x = h THEN rec ELSE channel_by_handle[x]]
    /\ resolved' = [x \in DOMAIN resolved \cup {h} |->
                       IF x = h THEN rec ELSE resolved[x]]
    /\ cache_op' = [op |-> "get_channel", arg |-> <<>>,
                    result |-> TRUE, before |-> <<>>]
    /\ UNCHANGED <<clock, cache_file, cache_channels, channel_by_id,
                   channel_by_name, last_update>>

\* The process ends and a new one creates its ChannelCache: the file stays.
RestartCache ==
    /\ cache_op.op # "none"
    /\ SetChannels(<<>>)
    /\ last_update' = 0
    /\ resolved' = <<>>
    /\ cache_op' = NoCacheOp
    /\ UNCHANGED <<clock, cache_file>>

\* Time passes until the instant t.
Tick(t) ==
    /\ t > clock
    /\ clock' = t
    /\ cache_op' = [op |-> "tick", arg |-> <<>>, result |-> FALSE, before |-> <<>>]
    /\ UNCHANGED <<cache_file, cache_channels, channel_by_id, channel_by_name,
                   channel_by_handle, last_update, resolved>>

\* ------------------------------------------------ _initialize_channel_cache

\* "channel.get("id") and channel.get("name") and not
\*  channel.get("inactive", False)".
is_useful_channel(channel) ==
    channel.id # 0 /\ channel.name # "" /\ ~channel.inactive

\* The simplified channel object that is cached.
simplified_channel(channel) == [id |-> channel.id, name |-> channel.name]

\* filtered_channels: the useful channels of new_channels, simplified.
RECURSIVE filter_channels(_)
filter_channels(new_channels) ==
    IF new_channels = <<>> THEN <<>>
    ELSE IF is_useful_channel(Head(new_channels))
    THEN <<simplified_channel(Head(new_channels))>> \o filter_channels(Tail(new_channels))
    ELSE filter_channels(Tail(new_channels))

\* is_cache_valid right after load_cache has loaded the file.
is_loaded_cache_valid ==
    clock - (IF cache_file.last_update = 0 THEN cache_file.mtime
             ELSE cache_file.last_update) < cache_ttl

\* _initialize_channel_cache up to its await: load_cache; a loaded cache
\* that is valid ends the bootstrap; otherwise the loaded channels are kept
\* as existing_channels and get_all_channels is called (the server has the
\* list channels).
BootstrapStart(channels) ==
    /\ boot_pc = "idle"
    /\ fetch_pc = "idle"
    /\ LET cache_loaded == cache_file.state = "ok" IN
       /\ IF cache_loaded
          THEN /\ SetChannels(cache_file.channels)
               /\ last_update' = cache_file.last_update
          ELSE UNCHANGED <<cache_channels, channel_by_id, channel_by_name,
                           channel_by_handle, last_update>>
       /\ cache_op' = [op |-> "load_cache", arg |-> <<>>,
                       result |-> cache_loaded, before |-> <<>>]
       /\ IF cache_loaded /\ is_loaded_cache_valid
          THEN /\ boot_pc' = "done"
               /\ existing_channels' = <<>>
               /\ UNCHANGED bulk
          ELSE /\ boot_pc' = "fetching"
               /\ existing_channels' = IF cache_loaded THEN cache_file.channels ELSE <<>>
               /\ StartFetch(channels, FALSE)
    /\ UNCHANGED <<clock, cache_file, resolved>>
    /\ UNCHANGED <<core, conn, overlap, config, sync_now, sync_sleep>>
    /\ UNCHANGED <<last_op, events, frames, prev_streams, prev_subs, last_video,
                   resub_S, resub_frames, resub_quiet, acked, cb>>

\* The bootstrap did not call update_cache.
NoCacheUpdate ==
    /\ cache_op' = [op |-> "no_update", arg |-> <<>>, result |-> FALSE, before |-> <<>>]
    /\ UNCHANGED <<clock, cache_file, cache_channels, channel_by_id,
                   channel_by_name, channel_by_handle, last_update, resolved>>

\* The list _initialize_channel_cache calls update_cache with (<<>> when it
\* does not call it): the filtered channels when the fetch returned some,
\* the existing ones when it returned none.
bootstrap_channels(new_channels, existing) ==
    IF new_channels # <<>> THEN filter_channels(new_channels) ELSE existing

\* get_all_channels has returned: the rest of _initialize_channel_cache.
BootstrapFinish(outcome) ==
    /\ boot_pc = "fetching"
    /\ fetch_pc = "returned"
    /\ boot_pc' = "done"
    /\ LET channels == bootstrap_channels(fetch_result, existing_channels) IN
       IF channels # <<>>
       THEN UpdateCache(channels, outcome)
       ELSE outcome = "saved" /\ NoCacheUpdate
    /\ UNCHANGED <<bulk, existing_channels>>
    /\ UNCHANGED <<core, conn, overlap, config, sync_now, sync_sleep>>
    /\ UNCHANGED <<last_op, events, frames, prev_streams, prev_subs, last_video,
                   resub_S, resub_frames, resub_quiet, acked, cb>>

\* What happened before the bootstrap: an earlier process saved a cache and
\* ended, and time passed.
BeforeBootstrap ==
    /\ boot_pc = "idle"
    /\ fetch_pc = "idle"
    /\ UNCHANGED <<core, conn, overlap, config, sync_now, sync_sleep, bulk, boot>>
    /\ UNCHANGED <<last_op, events, frames, prev_streams, prev_subs, last_video,
                   resub_S, resub_frames, resub_quiet, acked, cb>>
    /\ \/ \E channels \in ChannelLists : UpdateCache(channels, "saved")
       \/ RestartCache
       \/ \E t \in ClockValues : Tick(t)

\* The bootstrap of the channel cache at start(), with its bulk fetch.
NextBootstrap ==
    \/ BeforeBootstrap
    \/ \E channels \in ServerLists : BootstrapStart(channels)
    \/ FetchPage
    \/ FetchStatusError
    \/ FetchRaises
    \/ \E outcome \in {"saved", "unopened"} : BootstrapFinish(outcome)

SpecBootstrap == Init /\ [][NextBootstrap]_vars

\* The channel cache alone.
NextCache ==
    /\ UNCHANGED <<core, conn, overlap, config, sync_now, sync_sleep, bulk, boot>>
    /\ UNCHANGED <<last_op, events, frames, prev_streams, prev_subs, last_video,
                   resub_S, resub_frames, resub_quiet>>
    /\ \/ \E channels \in ChannelLists :
              \E outcome \in {"saved", "unopened", "truncated"} :
                  UpdateCache(channels, outcome)
       \/ LoadCache
       \/ IsCacheValid
       \/ \E h \in Handles : \E rec \in HandleRecords : ResolveHandle(h, rec)
       \/ RestartCache
       \/ \E t \in ClockValues : Tick(t)
    /\ UNCHANGED acked
    /\ UNCHANGED cb

SpecCache == Init /\ [][NextCache]_vars

\* ------------------------------------- _calculate_sleep_until_next_sync

\* A variant whose division truncates toward zero instead of flooring.
sleep_until_next_sync_truncating(t) ==
    LET x == t - sync_offset_seconds
        current_cycle == IF x >= 0 THEN x \div update_interval
                         ELSE -((-x) \div update_interval)
        next_sync_seconds == (current_cycle + 1) * update_interval + sync_offset_seconds
        sleep_seconds == next_sync_seconds - t
    IN IF sleep_seconds > update_interval THEN update_interval
       ELSE IF sleep_seconds < 1 THEN 1 ELSE sleep_seconds

\* _calculate_sleep_until_next_sync at t whole seconds since UTC midnight:
\* "//" floors; a sync point on the next day is midnight plus one day plus
\* next_sync_seconds - 86400, which is next_sync_seconds after this midnight;
\* the result is max(1, min(sleep_seconds, update_interval)).
sleep_until_next_sync(t) ==
    LET current_cycle == (t - sync_offset_seconds) \div update_interval
        next_sync_seconds == (current_cycle + 1) * update_interval + sync_offset_seconds
        sleep_seconds == next_sync_seconds - t
    IN IF sleep_seconds > update_interval THEN update_interval
       ELSE IF sleep_seconds < 1 THEN 1 ELSE sleep_seconds

\* The polling loop computes its sleep when the clock reads t.
CalculateSleep(t) ==
    /\ sync_now' = t
    /\ sync_sleep' = sleep_until_next_sync(t)
    /\ UNCHANGED <<core, conn, overlap, config, cache, bulk, boot>>
    /\ UNCHANGED <<last_op, events, frames, prev_streams, prev_subs, last_video,
                   resub_S, resub_frames, resub_quiet>>
    /\ UNCHANGED acked
    /\ UNCHANGED cb

\* The sleep computation alone: the first one at any second of the day, each
\* later one when the loop has slept and its next _update_streams has taken
\* up to MaxPollSeconds.
NextSync ==
    \/ /\ sync_now = -1
       /\ \E t \in 0..(DaySeconds - 1) : CalculateSleep(t)
    \/ /\ sync_now >= 0
       /\ \E d \in 0..MaxPollSeconds :
              CalculateSleep((sync_now + sync_sleep + d) % DaySeconds)

SpecSync == Init /\ [][NextSync]_vars

\* The connection alone: start(), invoked up to MaxStarts times, and
\* _websocket_loop with up to MaxFailuresConnect failed attempts in a row.
NextConnect ==
    \/ \E tc \in SUBSET Channels : Start(tc)
    \/ \E tc \in SUBSET Channels : StartAgain(tc)
    \/ WsConnectOk
    \/ WsConnectFail(MaxFailuresConnect)
    \/ WsHandshakeRaises(MaxFailuresConnect)
    \/ WsHandshakeInvalid
    \/ WsHandshakeOk
    \/ ResubscribeStep
    \/ WsProcess
    \/ WsRemoteClose
    \/ WsClosed
    \/ UndecodableEvent
    \/ WsReceive

SpecConnect == Init /\ [][NextConnect]_vars

\* ===================================================================== claims

\* Helpers for stating the claims.

\* The video ids a sequence of callbacks or frames names, and how often.
Range(seq) == {seq[i] : i \in 1..Len(seq)}

Count(seq, x) == Cardinality({i \in 1..Len(seq) : seq[i] = x})

\* v is in snapshot cs as live or upcoming and not members-only.
Eligible(cs, v) ==
    /\ cs # NoneVal
    /\ v \in DOMAIN cs
    /\ cs[v].status \in {"live", "upcoming"}
    /\ ~cs[v].members_only

\* v is in snapshot cs as upcoming, scheduled more than 24 hours ahead.
FarUpcoming(cs, v) ==
    /\ v \in DOMAIN cs
    /\ cs[v].status = "upcoming"
    /\ cs[v].start_time > DayHours

\* The last step was the diff of a successful poll / of the first one / of
\* a later one.
AfterPoll == last_op = "poll"

AfterFirstPoll == AfterPoll /\ prev_streams = NoneVal

AfterLaterPoll == AfterPoll /\ prev_streams # NoneVal

\* v is new or has a changed status in the snapshot of the last poll.
Transition(v) ==
    /\ v \in DOMAIN current_streams
    /\ \/ prev_streams = NoneVal
       \/ v \notin DOMAIN prev_streams
       \/ prev_streams[v].status # current_streams[v].status

\* No poll cycle, update_channels call, resubscription or unsubscribe task
\* is in progress.
Quiescent ==
    /\ poll_pc \in {"not_started", "idle"}
    /\ uc_pc = "idle"
    /\ ws_pc \notin ResubPcs \cup {"resub_done"}
    /\ unsub_tasks = {}

\* --------------------------------------------------------------------- C1
\* C1: in every state in which no poll cycle or resubscription is in
\* progress, a video id is in the subscription set if and only if its
\* snapshot entry is live or upcoming and not members-only.
C1_SubscribedIffEligible ==
    Quiescent =>
        \A v \in Videos :
            v \in active_subscriptions <=> Eligible(current_streams, v)

\* --------------------------------------------------------------------- C2
\* The resubscription of this connection ran to its end with nothing else
\* touching the engine since the handshake.
ResubscriptionDone == ws_pc = "resub_done" /\ resub_quiet

ResubIds == {fr[2] : fr \in Range(resub_frames)}

MissedStreams == {v \in Videos : Eligible(current_streams, v) /\ v \notin resub_S}

C3_FirstPollFires ==
    AfterFirstPoll =>
        \A v \in DOMAIN current_streams :
            ~FarUpcoming(current_streams, v) =>
                <<v, current_streams[v].status>> \in Range(events)

\* C3 as amended: the first successful poll fires no onStreamEvent at all;
\* it sends a subscribe frame for every eligible stream when the socket is
\* connected.
C3_FirstPollSilent ==
    AfterFirstPoll =>
        /\ events = <<>>
        /\ \A v \in DOMAIN current_streams :
               (Eligible(current_streams, v) /\ ws_connected /\ ws = "open")
                   => Count(frames, <<"subscribe", v>>) = 1

C3_Witness ==
    /\ AfterFirstPoll
    /\ poll_pc = "done"
    /\ tracked_channels = {1}
    /\ DOMAIN current_streams = {1}
    /\ current_streams[1].status = "live"
    /\ frames = << <<"subscribe", 1>> >>
    /\ events = <<>>

\* --------------------------------------------------------------------- C4
\* C4: when update_channels removes a channel, its streams are out of the
\* snapshot when the call returns, and for each of them that is subscribed
\* the unsubscribe runs: the id leaves the subscription set, and the frame
\* is sent unless the peer has closed the socket.
C4_PurgedAndUnsubscribed ==
    /\ uc_pc = "done" =>
           \A v \in Videos : ~(/\ current_streams # NoneVal
                               /\ v \in DOMAIN current_streams
                               /\ current_streams[v].channel_id \in uc_removed)
    /\ last_op = "unsubscribe_task" =>
           /\ Cardinality(active_subscriptions) = Cardinality(prev_subs) - 1
           /\ ws # "closed" =>
                  (/\ Len(frames) = 1
                   /\ frames[1][1] = "unsubscribe"
                   /\ frames[1][2] \in prev_subs \ active_subscriptions)

\* --------------------------------------------------------------------- C5
\* C5: in a successful poll with a previous snapshot, onStreamEvent is
\* invoked at most once per video id and only for ids that are new or whose
\* status changed.
C5_EventsOnlyForTransitions ==
    AfterLaterPoll =>
        \A i \in 1..Len(events) :
            /\ \/ events[i][1] \notin DOMAIN prev_streams
               \/ prev_streams[events[i][1]].status # events[i][2]
            /\ \A j \in 1..Len(events) : events[j][1] = events[i][1] => j = i

C5_Witness ==
    /\ AfterLaterPoll
    /\ DOMAIN prev_streams = {1}
    /\ prev_streams[1].status = "live"
    /\ ~prev_streams[1].members_only
    /\ DOMAIN current_streams = {1, 2}
    /\ current_streams[1].status = "live"
    /\ current_streams[1].members_only
    /\ current_streams[2].status = "upcoming"
    /\ events = << <<2, "upcoming">> >>

\* --------------------------------------------------------------------- C6
\* The video ids of the array a 200 answer of the polling loop's last cycle
\* carried.
FetchedIds == IF last_op = "poll_empty" THEN {} ELSE DOMAIN current_streams

\* C6: on a poll whose fetch succeeded, every id of the previous snapshot
\* that is absent from the new array is out of the retained snapshot and,
\* if it was subscribed, is unsubscribed; also when the array is empty.
C6_EndedStreamsDropped ==
    (/\ poll_pc = "done"
     /\ last_op \in {"poll", "poll_empty"}
     /\ prev_streams # NoneVal) =>
        \A v \in DOMAIN prev_streams \ FetchedIds :
            /\ v \notin DOMAIN current_streams
            /\ v \in prev_subs =>
                   (v \notin active_subscriptions
                    /\ <<"unsubscribe", v>> \in Range(frames))

\* --------------------------------------------------------------------- C7
\* C7: a subscribed stream that stays live and becomes members-only gets
\* exactly one unsubscribe and no subscribe in that poll, and is out of the
\* subscription set afterwards.
C7_MembersOnlyFlipUnsubscribes ==
    AfterLaterPoll =>
        \A v \in DOMAIN prev_streams \cap DOMAIN current_streams :
            (/\ prev_streams[v].status = "live"
             /\ ~prev_streams[v].members_only
             /\ current_streams[v].status = "live"
             /\ current_streams[v].members_only
             /\ v \in prev_subs) =>
                /\ Count(frames, <<"unsubscribe", v>>) = 1
                /\ Count(frames, <<"subscribe", v>>) = 0
                /\ v \notin active_subscriptions

\* --------------------------------------------------------------------- C8
\* C8: an upcoming stream more than 24 hours ahead that is detected on the
\* first successful poll fires no onStreamEvent.
C8_FarUpcomingSilentOnFirstPoll ==
    AfterFirstPoll =>
        \A v \in Videos :
            FarUpcoming(current_streams, v) => <<v, "upcoming">> \notin Range(events)

C8_Witness ==
    /\ AfterFirstPoll
    /\ FarUpcoming(current_streams, 1)
    /\ events = <<>>

\* --------------------------------------------------------------------- C9
\* C9 as claimed: on a later poll a newly detected upcoming stream more
\* than 24 hours ahead fires onStreamEvent.
C9_FarUpcomingFiresLater ==
    AfterLaterPoll =>
        \A v \in DOMAIN current_streams \ DOMAIN prev_streams :
            FarUpcoming(current_streams, v) => <<v, "upcoming">> \in Range(events)

\* C9 as amended: on a later poll too, a newly detected upcoming stream more
\* than 24 hours ahead fires no onStreamEvent.
C9_FarUpcomingSilentLater ==
    AfterLaterPoll =>
        \A v \in DOMAIN current_streams \ DOMAIN prev_streams :
            FarUpcoming(current_streams, v) => <<v, "upcoming">> \notin Range(events)

C9_Witness ==
    /\ AfterLaterPoll
    /\ DOMAIN prev_streams = {1}
    /\ DOMAIN current_streams = {1, 2}
    /\ FarUpcoming(current_streams, 2)
    /\ prev_streams[1].status = "upcoming"
    /\ current_streams[1].status = "live"
    /\ events = << <<1, "live">> >>

\* -------------------------------------------------------------------- C10
\* C10 as claimed: every new id or changed status of a successfully fetched
\* snapshot, other than a first-poll upcoming stream more than 24 hours
\* ahead, fires at least one onStreamEvent.
C10_EveryTransitionFires ==
    AfterPoll =>
        \A v \in DOMAIN current_streams :
            (Transition(v)
             /\ ~(prev_streams = NoneVal /\ FarUpcoming(current_streams, v))) =>
                <<v, current_streams[v].status>> \in Range(events)

\* C10 as amended: with a previous snapshot, every new id or changed status
\* other than an upcoming stream more than 24 hours ahead fires
\* onStreamEvent in that cycle; a cycle whose fetch failed fires nothing and
\* keeps the retained snapshot, so the difference is still there for the
\* next cycle.
C10_LaterTransitionsFire ==
    /\ AfterLaterPoll =>
           \A v \in DOMAIN current_streams :
               (Transition(v) /\ ~FarUpcoming(current_streams, v)) =>
                   <<v, current_streams[v].status>> \in Range(events)
    /\ (poll_pc = "done" /\ last_op \in {"poll_failed", "poll_empty"}) =>
           /\ events = <<>>
           /\ current_streams = prev_streams

C10_Witness ==
    /\ AfterLaterPoll
    /\ DOMAIN prev_streams = {1}
    /\ prev_streams[1].status = "upcoming"
    /\ DOMAIN current_streams = {1, 2}
    /\ current_streams[1].status = "live"
    /\ current_streams[2].status = "live"
    /\ events = << <<1, "live">>, <<2, "live">> >>

\* -------------------------------------------------------------------- C12
\* C12: a poll cycle whose fetch failed (non-200 status or transport
\* failure) fires no onStreamEvent, sends no frame and leaves the retained
\* snapshot and the subscription set as they were (in update_channels the
\* cleanup of the removed channels still follows).
C12_FailedFetchChangesNothing ==
    last_op = "poll_failed" =>
        /\ events = <<>>
        /\ frames = <<>>
        /\ active_subscriptions = prev_subs
        /\ poll_pc = "done" => current_streams = prev_streams
        /\ uc_pc = "done" =>
               current_streams = cleanup_streams(prev_streams, uc_removed)

C12_Witness ==
    /\ poll_pc = "done"
    /\ last_op = "poll_failed"
    /\ current_streams # NoneVal
    /\ DOMAIN current_streams = {1, 2}
    /\ active_subscriptions = {1}
    /\ ws_connected

\* -------------------------------------------------------------------- C13
\* C13: the fetch yields null only for an empty channel set or a failed
\* request; a 200 answer yields the list, and a 200 answer with no streams
\* is processed as a snapshot without streams.
C13_EmptyListIsASnapshot ==
    (poll_pc = "done" /\ last_op \in {"poll", "poll_empty"}) =>
        /\ current_streams # NoneVal
        /\ last_op = "poll_empty" => DOMAIN current_streams = {}

\* -------------------------------------------------------------------- C19
\* The guard of both operations: "not self.ws_connected or not self.ws".
NotConnected == ~ws_connected \/ ws = "None"

C16_DecodeFailureDisconnects ==
    last_op = "decode_failure" => (~ws_connected /\ ws_pc = "connect")

\* C16 as amended: an undecodable inbound event frame is dropped: the
\* client stays connected on the same socket and nothing else changes.
C16_DecodeFailureIsDropped ==
    last_op = "decode_failure" =>
        /\ ws_connected
        /\ ws = "open"
        /\ ws_pc = "handled"
        /\ events = <<>>
        /\ frames = <<>>
        /\ current_streams = prev_streams
        /\ active_subscriptions = prev_subs

C16_Witness ==
    /\ last_op = "decode_failure"
    /\ ws_connected
    /\ ws_pc = "handled"
    /\ active_subscriptions = {1}

C11_NoDuplicateCallback ==
    \A i, j \in 1..Len(calls) : calls[i] = calls[j] => i = j

\* An instant x, in seconds since this UTC midnight, is a sync point: it is
\* sync_offset_seconds past a multiple of update_interval since its midnight.
IsSyncPoint(x) ==
    LET d == x % DaySeconds
    IN d >= sync_offset_seconds /\ (d - sync_offset_seconds) % update_interval = 0

\* C26: the polling loop sleeps until the earliest sync point strictly after
\* now, also across midnight, and for at least 1 and at most
\* update_interval seconds.
C26_SleepsUntilNextSyncPoint ==
    sync_now >= 0 =>
        /\ sync_sleep >= 1
        /\ sync_sleep <= update_interval
        /\ IsSyncPoint(sync_now + sync_sleep)
        /\ \A s \in 1..(sync_sleep - 1) : ~IsSyncPoint(sync_now + s)

\* The sleep computed half a minute before midnight ends on the next day.
C26_Witness ==
    /\ sync_now = DaySeconds - 10
    /\ sync_sleep = 40
    /\ sync_now + sync_sleep > DaySeconds

\* The last record of the list value that has id i.
LastWithId(value, i) ==
    value[CHOOSE k \in 1..Len(value) :
            /\ value[k].id = i
            /\ \A j \in 1..Len(value) : value[j].id = i => j <= k]

\* C28 as stated: after update_cache(records), for any records, the id
\* index holds exactly the ids of records.
C28_ReplaceAnyRecords ==
    cache_op.op = "update_cache" =>
        DOMAIN channel_by_id = {cache_op.arg[k].id : k \in 1..Len(cache_op.arg)}

\* C28: after update_cache(records) with a non-empty list the id index maps
\* every id of records to the last record with that id and holds no other
\* id, whatever it held before; with an empty list update_cache returns False
\* and leaves the id index as it was.
C28_ReplaceNonEmptyRecords ==
    cache_op.op = "update_cache" =>
        IF cache_op.arg # <<>>
        THEN /\ DOMAIN channel_by_id =
                    {cache_op.arg[k].id : k \in 1..Len(cache_op.arg)}
             /\ \A i \in DOMAIN channel_by_id :
                    channel_by_id[i] = LastWithId(cache_op.arg, i)
        ELSE /\ ~cache_op.result
             /\ channel_by_id = cache_op.before

\* A replace by two records that share id 1, after id 2 had been cached (the
\* file still holds it, the save of this replace failed).
C28_Witness ==
    /\ cache_op.op = "update_cache"
    /\ Len(cache_op.arg) = 2
    /\ cache_op.arg[1].id = 1
    /\ cache_op.arg[2].id = 1
    /\ cache_op.arg[1].name # cache_op.arg[2].name
    /\ ~cache_op.result
    /\ cache_file.state = "ok"
    /\ \E k \in 1..Len(cache_file.channels) : cache_file.channels[k].id = 2
    /\ cache_channels = cache_op.arg
    /\ 2 \notin DOMAIN channel_by_id

\* C29: the cache is valid right after a snapshot has been saved, and it is
\* invalid whenever the file is missing or the last update (that of the
\* instance, or the file's when the instance has none) is cache_ttl or more
\* ago, file or no file.
C29_ValidWhileFresh ==
    /\ (cache_op.op = "update_cache" /\ cache_op.result) => is_cache_valid
    /\ cache_file.state = "missing" => ~is_cache_valid
    /\ (last_update # 0 /\ clock - last_update >= cache_ttl) => ~is_cache_valid
    /\ (/\ last_update = 0
        /\ cache_file.state = "ok"
        /\ clock - cache_file.last_update >= cache_ttl) => ~is_cache_valid
    /\ cache_op.op = "is_cache_valid" => cache_op.result = is_cache_valid

\* is_cache_valid has answered False for a snapshot saved exactly cache_ttl
\* ago whose file is present.
C29_Witness ==
    /\ cache_op.op = "is_cache_valid"
    /\ ~cache_op.result
    /\ cache_file.state = "ok"
    /\ last_update = 1
    /\ clock = cache_ttl + 1

\* C30: a handle resolved by this instance stays in the handle index with
\* the record it was resolved to.
C30_HandlesSurviveReplace ==
    \A h \in DOMAIN resolved :
        h \in DOMAIN channel_by_handle /\ channel_by_handle[h] = resolved[h]

\* C21: while the handshake frame is awaited nothing has been sent on the
\* socket and the client is not connected; the client is connected, and
\* subscribe and unsubscribe frames are sent, only after the "40" has been
\* sent on that socket; a handshake that raises (its 10 seconds pass without
\* a frame) leaves the client disconnected, without socket, at its next
\* attempt.
C21_NothingSentBeforeAck ==
    /\ ws_pc = "handshake" => (~acked /\ ~ws_connected)
    /\ ws_connected => acked
    /\ frames # <<>> => acked
    /\ resub_frames # <<>> => acked
    /\ last_op = "handshake_failed" =>
           (~ws_connected /\ ws = "None" /\ ws_pc = "connect" /\ frames = <<>>)

\* A poll ran while the handshake frame of a second connection was awaited:
\* it found a stream to subscribe to and sent nothing.
C21_Witness ==
    /\ ws_pc = "handshake"
    /\ session_id = "sid"
    /\ last_op = "poll"
    /\ frames = <<>>
    /\ active_subscriptions = {}
    /\ \E v \in Videos : Eligible(current_streams, v)

\* C27: a step of update_channels that adds a channel while the manager is
\* running puts the fetch of a poll over the whole new tracked set in flight
\* (the call returns only after that fetch), the tracked set stays the new
\* one while it is in flight, and every poll the polling loop starts asks
\* for the tracked set of that moment.
C27_ImmediatePollOverNewSet ==
    [][/\ (running /\ tracked_channels' \ tracked_channels # {}) =>
              (uc_pc' = "fetch" /\ uc_arg' = tracked_channels')
       /\ (uc_pc = "fetch" /\ uc_pc' = "fetch") =>
              (uc_arg' = uc_arg /\ tracked_channels' = uc_arg)
       /\ (uc_pc = "fetch" /\ uc_pc' # "fetch") => uc_pc' = "done"
       /\ (poll_pc # "fetch" /\ poll_pc' = "fetch") =>
              poll_arg' = tracked_channels']_vars

\* The immediate poll over the new set {1, 2} is in flight while a poll the
\* loop started over the old set {1} has not returned yet.
C27_Witness ==
    /\ uc_pc = "fetch"
    /\ uc_arg = {1, 2}
    /\ tracked_channels = {1, 2}
    /\ poll_pc = "fetch"
    /\ poll_arg = {1}

\* C22 as stated: a chat event with an author name and a message that is
\* not blank is given to exactly one callback, whatever its language tag.
C22_EveryChatEventDelivered ==
    (chat_event.video # 0 /\ chat_event.name /\ chat_event.text) =>
        chat_event.delivered = IF chat_event.is_vtuber THEN {"vtuber"} ELSE {"chat"}

\* C22: a chat event "<video_id>/en" with an author name and a message that
\* is not blank, handled while a snapshot is retained, is given to the
\* vtuber callback when it is broadcaster-authored and to the chat callback
\* otherwise, and to that one only; with another language tag, or without a
\* retained snapshot, it is given to no callback.
C22_EnglishChatEventDelivered ==
    (chat_event.video # 0 /\ chat_event.name /\ chat_event.text) =>
        IF chat_event.lang = "en" /\ current_streams # NoneVal
        THEN chat_event.delivered =
                 IF chat_event.is_vtuber THEN {"vtuber"} ELSE {"chat"}
        ELSE chat_event.delivered = {}

\* A broadcaster-authored message for a subscribed video was delivered.
C22_Witness ==
    /\ chat_event.video = 1
    /\ chat_event.lang = "en"
    /\ chat_event.name
    /\ chat_event.text
    /\ chat_event.is_vtuber
    /\ chat_event.delivered = {"vtuber"}
    /\ 1 \in active_subscriptions

\* C23: a poll whose stream callbacks all raise still replaces the
\* snapshot by the fetched one, calls the callback for every transition
\* that calls for it, subscribes to every changed stream that wants it, and
\* returns to the polling loop; a raising chat callback leaves the client
\* connected and the message loop running.
C23_RaisingCallbacksChangeNothing ==
    /\ last_op = "poll_raising" =>
           /\ poll_pc = "done"
           /\ current_streams = polled
           /\ \A v \in DOMAIN polled :
                  is_stream_change(prev_streams, v, polled[v]) =>
                      /\ calls_stream_callback(prev_streams, polled[v]) =>
                             \E i \in 1..Len(events) :
                                 events[i] = <<v, polled[v].status>>
                      /\ (/\ wants_subscription(prev_subs, v, polled[v])
                          /\ ws_connected
                          /\ ws = "open") => v \in active_subscriptions
    /\ (chat_event.raises /\ chat_event.delivered # {}) =>
           (ws_connected /\ ws = "open" /\ ws_pc = "handled")

\* Two stream callbacks raised in one poll, and both streams were
\* subscribed to.
C23_Witness ==
    /\ last_op = "poll_raising"
    /\ Len(events) = 2
    /\ Len(frames) = 2
    /\ active_subscriptions = {1, 2}
    /\ prev_subs = {}
    /\ ws_connected

\* C24: every poll cycle that has started ends, by a return or by a logged
\* exception, and after every end of a cycle the loop starts another
\* cycle: no outcome ends or blocks the polling loop.
C24_AlwaysNextCycle ==
    /\ (poll_pc = "fetch") ~> (poll_pc \in {"done", "error_sleep"})
    /\ (poll_pc \in {"done", "error_sleep"}) ~> (poll_pc = "fetch")

\* A cycle ended by an exception, after a cycle that stored a snapshot.
C24_Witness ==
    /\ running
    /\ last_op = "poll_error"
    /\ poll_pc = "error_sleep"
    /\ current_streams # NoneVal

\* C25 as stated: once stop() has cleared the running flag, the realtime
\* loop has ended, the socket is closed, the client is not connected, no
\* poll starts, and no step calls a consumer callback or sends a frame.
C25_NothingAfterStop ==
    (~running /\ ws_pc # "not_started") =>
        /\ ws_pc = "exited"
        /\ ~ws_connected
        /\ ws # "open"
        /\ last_op \in {"stop", "none"} \/ (events = <<>> /\ frames = <<>>)

\* C34: an update_cache of a non-empty list whose save fails returns False,
\* and the list and the id and name indices are those of the new records;
\* they stay so until the next replace, load or restart.  A reported
\* success means the file holds the new records.
C34_FailedSaveKeepsMemory ==
    [][/\ (cache_op'.op = "update_cache" /\ cache_op'.arg # <<>> /\ ~cache_op'.result) =>
              /\ cache_channels' = cache_op'.arg
              /\ channel_by_id' = index_by_id(cache_op'.arg)
              /\ channel_by_name' = index_by_name(cache_op'.arg)
              /\ cache_file'.state # "ok" \/ cache_file' = cache_file
       /\ (cache_op'.op = "update_cache" /\ cache_op'.result) =>
              (cache_file'.state = "ok" /\ cache_file'.channels = cache_op'.arg)
       /\ cache_op'.op \in {"is_cache_valid", "tick", "get_channel"} =>
              (channel_by_id' = channel_by_id /\ channel_by_name' = channel_by_name)]_vars

\* A save failed after another list had been saved: the indices are those
\* of the new list, the file holds the old one.
C34_Witness ==
    /\ cache_op.op = "update_cache"
    /\ cache_op.arg # <<>>
    /\ ~cache_op.result
    /\ cache_file.state = "ok"
    /\ cache_file.channels # cache_op.arg
    /\ channel_by_id = index_by_id(cache_op.arg)
    /\ channel_by_id # index_by_id(cache_file.channels)

\* C31: the delay never exceeds its cap; a request answered with 429 is
\* followed by a 10-second wait and, when the loop goes on, by a request at
\* the same offset whose delay is 1.5 times the delay before or the cap,
\* and larger unless the cap was reached; of three requests in a row
\* answered with 429 the third uses at least twice the delay of the first,
\* or the cap.
C31_RateLimitBackoff ==
    /\ request_delay <= max_request_delay
    /\ \A i \in 1..Len(attempts) :
           /\ attempts[i].delay <= max_request_delay
           /\ attempts[i].status = 429 => attempts[i].wait = rate_limit_cooldown
    /\ \A i \in 1..(Len(attempts) - 1) :
           attempts[i].status = 429 =>
               /\ attempts[i + 1].offset = attempts[i].offset
               /\ \/ attempts[i + 1].delay * 2 = attempts[i].delay * 3
                  \/ attempts[i + 1].delay = max_request_delay
               /\ \/ attempts[i + 1].delay > attempts[i].delay
                  \/ attempts[i].delay = max_request_delay
    /\ (/\ Len(attempts) > 0
        /\ attempts[Len(attempts)].status = 429) =>
           /\ offset = attempts[Len(attempts)].offset
           /\ \/ request_delay * 2 = attempts[Len(attempts)].delay * 3
              \/ request_delay = max_request_delay
    /\ (Len(attempts) = 3 /\ \A i \in 1..3 : attempts[i].status = 429) =>
           \/ attempts[3].delay >= 2 * attempts[1].delay
           \/ attempts[3].delay = max_request_delay

\* Three requests in a row were answered with 429 after a page had been
\* fetched, and the third used more than twice the delay of the first.
C31_Witness ==
    /\ Len(attempts) = 3
    /\ \A i \in 1..3 : attempts[i].status = 429 /\ attempts[i].offset = PageLimit
    /\ attempts[1].delay = initial_request_delay
    /\ attempts[3].delay > 2 * attempts[1].delay
    /\ attempts[3].delay < max_request_delay

\* C32 as stated: whatever ends the bulk fetch, the list it returns is the
\* list of the channels accumulated so far.
C32_PartialResultKept ==
    fetch_pc = "returned" => fetch_result = all_channels

\* C40: every step of the pagination loop that does not return counts one
\* more request, the count never exceeds max_api_calls, and at
\* max_api_calls the loop returns.
C40_AtMostMaxApiCalls ==
    [][/\ api_call_count' <= max_api_calls
       /\ (fetch_pc = "loop" /\ fetch_pc' = "loop") =>
              api_call_count' = api_call_count + 1
       /\ (fetch_pc = "loop" /\ api_call_count = max_api_calls) =>
              (fetch_pc' = "returned" /\ fetch_result' = all_channels)
       /\ fetch_pc = "returned" => fetch_pc' = "returned"]_vars

\* The fetch returned at the limit, every request having been answered with
\* a page that was not empty.
C40_Witness ==
    /\ fetch_pc = "returned"
    /\ api_call_count = max_api_calls
    /\ server.endless
    /\ Len(fetch_result) = max_api_calls

\* C33 as stated: after a bootstrap that loaded a stale cache and whose
\* bulk fetch returned channels, every channel id of the stale cache is
\* still found in the id index.
C33_StaleCacheMerged ==
    (boot_pc = "done" /\ existing_channels # <<>> /\ fetch_result # <<>>) =>
        \A i \in DOMAIN index_by_id(existing_channels) : i \in DOMAIN channel_by_id

\* C35 as stated: remove_blacklisted_user returns True exactly when the
\* user was in the blacklist before the call, and then the user is no
\* longer in it; when it returns False the blacklist is as it was.
C35_RemoveReportsMembership ==
    bl_op.op = "remove" =>
        /\ bl_op.result = (bl_op.user \in Elements(bl_op.before.tl_blacklist))
        /\ bl_op.result => bl_op.user \notin Elements(guild_config.tl_blacklist)
        /\ ~bl_op.result => guild_config.tl_blacklist = bl_op.before.tl_blacklist

\* C36 as stated: when a poll of the polling loop returns and no
\* update_channels is in progress, the snapshot holds no stream of a channel
\* that is not tracked, and the poll has called no callback and sent no
\* subscribe frame for such a stream.
C36_RemovedChannelStaysPurged ==
    (poll_pc = "done" /\ uc_pc = "idle") =>
        /\ \A i \in 1..Len(events) : ChannelOf(events[i][1]) \in tracked_channels
        /\ \A i \in 1..Len(frames) :
               frames[i][1] = "subscribe" => ChannelOf(frames[i][2]) \in tracked_channels
        /\ current_streams # NoneVal =>
               \A v \in DOMAIN current_streams :
                   current_streams[v].channel_id \in tracked_channels

\* C37 as stated, at the step that ends a poll: when the poll assigns its
\* snapshot while the socket is connected and the resubscription is over,
\* every stream the poll found new or changed and that is live or upcoming
\* and not members-only is subscribed (nothing later would subscribe it
\* without a further status change).
C37_FoundStreamsSubscribed ==
    [][(/\ poll_pc \in {"fetch", "callback"}
        /\ poll_pc' = "idle"
        /\ current_streams' # current_streams
        /\ ws_connected'
        /\ ws' = "open"
        /\ ws_pc' = "process") =>
           \A v \in DOMAIN current_streams' :
               (/\ is_stream_change(current_streams, v, current_streams'[v])
                /\ Eligible(current_streams', v)) => v \in active_subscriptions']_vars

\* C38 as stated: every subscribe frame a resubscription step sends is for
\* a video id that is in the snapshot as live or upcoming and not
\* members-only.
C38_ResubscribesEligibleOnly ==
    last_op = "resubscribe" =>
        \A i \in 1..Len(frames) :
            frames[i][1] = "subscribe" => Eligible(current_streams, frames[i][2])

\* C39: after a subscribeError event for a video id the id is not in the
\* subscription set and the other entries are as before; after a poll whose
\* subscribe attempts failed in send_str (the socket was closed under a
\* client that is still connected) no attempted id is in the set, no frame
\* was sent, and every other entry is as before unless the poll
\* unsubscribed it (its stream ended or turned members-only).
C39_FailedSubscribeNotKept ==
    /\ last_op = "subscribe_error" =>
           /\ last_video \notin active_subscriptions
           /\ active_subscriptions = prev_subs \ {last_video}
    /\ (last_op = "poll" /\ ws_connected /\ ws = "closed") =>
           /\ \A v \in DOMAIN current_streams :
                  (/\ is_stream_change(prev_streams, v, current_streams[v])
                   /\ wants_subscription(prev_subs, v, current_streams[v])) =>
                      v \notin active_subscriptions
           /\ \A i \in 1..Len(frames) : frames[i][1] # "subscribe"
           /\ active_subscriptions \subseteq prev_subs
           /\ \A u \in prev_subs \ active_subscriptions :
                  u \notin DOMAIN current_streams \/ current_streams[u].members_only

\* A poll tried to subscribe a new stream on a socket that had been closed;
\* the stream subscribed before is still in the set, the new one is not.
C39_Witness ==
    /\ last_op = "poll"
    /\ ws_connected
    /\ ws = "closed"
    /\ prev_subs = {1}
    /\ active_subscriptions = {1}
    /\ 2 \in DOMAIN current_streams
    /\ is_stream_change(prev_streams, 2, current_streams[2])
    /\ wants_subscription(prev_subs, 2, current_streams[2])

\* C14: the retry delay is 1 second when the loop starts, is doubled by
\* every failed attempt in a row up to 60 seconds, and is 1 second again
\* whenever the client is connected; it is always between 1 and 60.
C14_BackoffDoublesUpToCap ==
    /\ min_retry_delay <= retry_delay
    /\ retry_delay <= max_retry_delay
    /\ retry_delay = IF 2 ^ failures <= max_retry_delay
                     THEN 2 ^ failures
                     ELSE max_retry_delay
    /\ ws_connected => (failures = 0 /\ retry_delay = min_retry_delay)

\* A first connection was made and lost, and seven attempts in a row have
\* failed since: the delay reached the cap and stayed there.
C14_Witness ==
    /\ session_id = "sid"
    /\ failures = 7
    /\ retry_delay = max_retry_delay
    /\ ws_pc = "connect"

\* C15: while the manager is running an invalid handshake frame does not
\* stop the websocket loop.
C15_LoopSurvivesInvalidHandshake ==
    running => ws_tasks >= 1

\* C17: there is never more than one _websocket_loop task, also after
\* start() is invoked again, and the one task makes a new attempt only
\* once its previous socket is closed; without a task no socket is open.
C17_AtMostOneConnection ==
    /\ ws_tasks <= 1
    /\ ws_tasks = 1 <=> ws_pc \notin {"not_started", "exited"}
    /\ ws_pc = "connect" => ws # "open"
    /\ ws_tasks = 0 => ws # "open"

\* start() was invoked a second time while the first connection was up.
C17_Witness ==
    /\ poll_loops = 2
    /\ ws_tasks = 1
    /\ ws = "open"
    /\ ws_connected
    /\ ws_pc = "process"

\* C18: whenever the websocket loop is not in a connection that completed
\* its handshake, connected is false and the session id is none.
C18_SessionTiedToConnection ==
    ws_pc \in {"not_started", "connect", "handshake", "exited"} =>
        (~ws_connected /\ session_id = "None")

====
